---- MODULE Spec2Model ----
(***************************************************************************)
(* Model of nova_sonic.session.NovaSonicSession: the session life cycle    *)
(* (start / reconnect / send_audio / stop), the response reader and the    *)
(* session timer, run as asyncio tasks on one event loop.                  *)
(*                                                                         *)
(* Scheduling.  The code between two awaits of a coroutine runs without    *)
(* interruption.  A task is therefore modelled by the await it is          *)
(* suspended at (pc), and one step of the model resumes a task, delivers   *)
(* the result of that await (a value, an exception of the transport, or a  *)
(* pending cancellation) and runs the code up to the next await.  Every    *)
(* await of the transport (open, send, close, await_output, receive) is a  *)
(* real suspension; asyncio.wait_for on a task that is already done        *)
(* returns without suspending (aws_sdk_bedrock_runtime needs Python 3.12,  *)
(* where wait_for is `async with timeout(): return await fut`).            *)
(*                                                                         *)
(* The event loop runs what is already scheduled (the wake-up of a         *)
(* cancelled task, the first step of a new task, the wake-up of a task     *)
(* whose awaited task has finished: all call_soon) before it polls for     *)
(* I/O, so such a step precedes every completion of a transport call, of   *)
(* a sleep and every new call of the application.  Where a coroutine       *)
(* assigns the session state twice without suspending in between, the      *)
(* model shows the two assignments as two steps that nothing separates.    *)
(*                                                                         *)
(* A message counts as sent when _send_event hands it to the transport,    *)
(* that is before the coroutine is suspended; whether the send succeeds is *)
(* drawn at that moment and reported when the task resumes.  Of the        *)
(* messages a stream has received the model keeps what the protocol looks  *)
(* at: how far the setup sequence got, whether every message came in its   *)
(* place and carried the identifiers of the stream's own segment.          *)
(***************************************************************************)
EXTENDS Integers, Sequences, FiniteSets, TLC

\* ------------------------------------------------------------------ bounds
\* external calls of the public API made in one behaviour
MaxCalls == 3
\* start()/reconnect() runs that pass their state guard (each opens a stream)
MaxOpens == 3
\* failures the transport reports
MaxFaults == 1
\* inbound events the remote model delivers
MaxEvents == 2

\* ------------------------------------------------------- program constants
MAX_HISTORY_TURNS == 10

\* The tasks that call the public API.  App is the application's main task
\* (agent.py, discord_bridge.py), which may call all of it.  Dispatch is a
\* second task using the same session: the orchestrator's dispatch task
\* (orchestrator.py _inject_response), which calls reconnect() and may be
\* cancelled by the orchestrator, or a handler that shuts the session down
\* with stop().
App == 1
Dispatch == 2
Callers == {App, Dispatch}

VARIABLES
    state,                  \* self._state
    client,                 \* self._client is not None
    stream,                 \* self._stream: 0 is None, else an index of streams
    prompt_name,            \* self._prompt_name (0 is "")
    system_content_name,    \* self._system_content_name
    audio_content_name,     \* self._audio_content_name
    history,                \* self._history
    current_user_text,      \* self._current_user_text
    current_assistant_text, \* self._current_assistant_text
    response_task,          \* self._response_task: 0 is None, else a task id
    session_timer_task,     \* self._session_timer_task
    should_reconnect,       \* self._should_reconnect
    metrics,                \* self._metrics
    tasks,                  \* the event loop's tasks, callers first
    streams,                \* the transport: every stream ever opened
    uuid,                   \* number of uuid4() values drawn
    calls, opens, faults,   \* budgets used
    stopped,                \* an effective stop() returned and no start() since
    on_reconnect,           \* self._on_reconnect: none | logs | raises
    text_calls,             \* the calls self._on_text(role, text) made so far
    inbound,                \* the messages handed to the reader, as far as
                            \* the specification of the reader records them
    audio_output_queue,     \* self._audio_output_queue (asyncio.Queue)
    played,                 \* the chunks the playback loop has taken from it
    turn_objects,           \* the ConversationTurn objects, by identity, as
                            \* far as a specification tells them apart
    history_refs,           \* self._history as the list of their identities
    snapshot,               \* a list returned by the history property
    system_prompt,          \* self.config.system_prompt, as text
    prompt_built,           \* what _build_continuation_prompt() last returned
    configured,             \* orchestrator: self._config.is_configured
    in_tag,                 \* orchestrator: self._in_tag
    tag_buffer,             \* orchestrator: self._tag_buffer
    passthrough,            \* orchestrator: the calls of _on_text_passthrough
    tag_stream,             \* the assistant text still to be delivered in chunks
    audio_in,               \* audio.py: the PCM bytes and rates a conversion is given
    audio_out,              \* audio.py: the conversions made and what the last gave
    dispatches,             \* orchestrator: self._dispatches
    active_dispatch,        \* orchestrator: the _post_and_poll task
    original_calls,         \* orchestrator: the calls of self._original_on_text
    cancelled_dispatches    \* the loop: cancelled _post_and_poll tasks not yet run

vars == <<state, client, stream, prompt_name, system_content_name,
          audio_content_name, history, current_user_text,
          current_assistant_text, response_task, session_timer_task,
          should_reconnect, metrics, tasks, streams, uuid, calls, opens,
          faults, stopped, on_reconnect, text_calls, inbound,
          audio_output_queue, played, turn_objects, history_refs, snapshot,
          system_prompt, prompt_built, configured, in_tag, tag_buffer,
          passthrough, tag_stream, audio_in, audio_out, dispatches,
          active_dispatch, original_calls, cancelled_dispatches>>

\* The session's variables but the history.
SessionRest ==
    <<state, client, stream, prompt_name, system_content_name,
      audio_content_name, current_user_text, current_assistant_text,
      response_task, session_timer_task, should_reconnect, metrics, tasks,
      streams, uuid, calls, opens, faults, stopped, on_reconnect, text_calls,
      inbound, audio_output_queue, played>>

\* What the specifications of the session's life cycle leave aside: there a
\* turn is its role and text, and nobody holds a list returned by history.
SnapshotVars == <<turn_objects, history_refs, snapshot>>

SnapshotIdle ==
    /\ turn_objects = <<>>
    /\ history_refs = <<>>
    /\ snapshot = [held |-> FALSE, refs |-> <<>>, n |-> 0]

\* There the prompt is kept as its history lines alone (BasePrompt,
\* BuildContinuationPrompt), not as text.
PromptVars == <<system_prompt, prompt_built>>

PromptIdle ==
    /\ system_prompt = <<>>
    /\ prompt_built = [built |-> FALSE, text |-> <<>>]

\* There no orchestrator is attached to the session: the orchestrator's
\* dispatch task appears as the caller Dispatch alone.
\* The tag scanner of _intercept_text and the text it is fed.
TagVars == <<in_tag, tag_buffer, passthrough, tag_stream>>

OrchVars ==
    <<configured, TagVars, dispatches, active_dispatch, original_calls,
      cancelled_dispatches>>

\* No assistant text is on its way.
NoText == [text |-> <<>>, cuts |-> {}, at |-> 1, users |-> 0]

\* No _post_and_poll task: self._active_dispatch is None.
NoDispatch ==
    [pc |-> "none", prompt |-> <<>>, response |-> <<>>, injected |-> 0,
     reconnects |-> 0]

\* AiryOrchestrator.__init__, with a configuration that is not complete
OrchIdle ==
    /\ configured = FALSE
    /\ in_tag = FALSE
    /\ tag_buffer = <<>>
    /\ passthrough = <<>>
    /\ tag_stream = NoText
    /\ dispatches = <<>>
    /\ active_dispatch = NoDispatch
    /\ original_calls = <<>>
    /\ cancelled_dispatches = <<>>

\* There no audio is converted.
AudioVars == <<audio_in, audio_out>>

NoConversion ==
    [ops |-> <<>>, arg |-> <<>>, raised |-> "none", data |-> <<>>, chunks |-> <<>>,
     size |-> 0]

AudioIdle ==
    /\ audio_in = [data |-> <<>>, src_rate |-> 1, dst_rate |-> 1]
    /\ audio_out = NoConversion

Aside == <<SnapshotVars, PromptVars, OrchVars, AudioVars>>

AsideIdle == SnapshotIdle /\ PromptIdle /\ OrchIdle /\ AudioIdle

\* The whole state as one record: the code of a step is a function on it.
Cur ==
    [state |-> state, client |-> client, stream |-> stream,
     prompt_name |-> prompt_name, system_content_name |-> system_content_name,
     audio_content_name |-> audio_content_name, history |-> history,
     current_user_text |-> current_user_text,
     current_assistant_text |-> current_assistant_text,
     response_task |-> response_task, session_timer_task |-> session_timer_task,
     should_reconnect |-> should_reconnect, metrics |-> metrics,
     tasks |-> tasks, streams |-> streams, uuid |-> uuid, calls |-> calls,
     opens |-> opens, faults |-> faults,
     stopped |-> stopped, on_reconnect |-> on_reconnect,
     text_calls |-> text_calls, inbound |-> inbound,
     audio_output_queue |-> audio_output_queue, played |-> played]

CommitSession(s) ==
    /\ state' = s.state
    /\ client' = s.client
    /\ stream' = s.stream
    /\ prompt_name' = s.prompt_name
    /\ system_content_name' = s.system_content_name
    /\ audio_content_name' = s.audio_content_name
    /\ history' = s.history
    /\ current_user_text' = s.current_user_text
    /\ current_assistant_text' = s.current_assistant_text
    /\ response_task' = s.response_task
    /\ session_timer_task' = s.session_timer_task
    /\ should_reconnect' = s.should_reconnect
    /\ metrics' = s.metrics
    /\ tasks' = s.tasks
    /\ streams' = s.streams
    /\ uuid' = s.uuid
    /\ calls' = s.calls
    /\ opens' = s.opens
    /\ faults' = s.faults
    /\ stopped' = s.stopped
    /\ on_reconnect' = s.on_reconnect
    /\ text_calls' = s.text_calls
    /\ inbound' = s.inbound
    /\ audio_output_queue' = s.audio_output_queue
    /\ played' = s.played

Commit(s) == CommitSession(s) /\ UNCHANGED Aside

\* ------------------------------------------------------------------- text
\* A text is a sequence of characters; " " stands for all white space.
\* A strip() that leaves the whitespace at the end.
StripLeadingOnly(txt) ==
    LET idx == {i \in 1..Len(txt) : txt[i] # " "}
    IN  IF idx = {} THEN <<>>
        ELSE SubSeq(txt, CHOOSE i \in idx : \A j \in idx : i <= j, Len(txt))

Strip(txt) ==
    LET idx == {i \in 1..Len(txt) : txt[i] # " "}
    IN  IF idx = {} THEN <<>>
        ELSE LET lo == CHOOSE i \in idx : \A j \in idx : i <= j
                 hi == CHOOSE i \in idx : \A j \in idx : j <= i
             IN  SubSeq(txt, lo, hi)

Last(sq, n) == IF Len(sq) > n THEN SubSeq(sq, Len(sq) - n + 1, Len(sq)) ELSE sq

\* A flush that trims the history from the wrong end.
FlushCurrentTurnKeepOldest(s) ==
    LET u  == Strip(s.current_user_text)
        h1 == IF u # <<>> THEN Append(s.history, [role |-> "user", text |-> u])
              ELSE s.history
        a  == Strip(s.current_assistant_text)
        h2 == IF a # <<>> THEN Append(h1, [role |-> "assistant", text |-> a])
              ELSE h1
    IN  [s EXCEPT !.history = IF Len(h2) > MAX_HISTORY_TURNS * 2
                              THEN SubSeq(h2, 1, MAX_HISTORY_TURNS * 2) ELSE h2,
                  !.current_user_text = IF u # <<>> THEN <<>> ELSE @,
                  !.current_assistant_text = IF a # <<>> THEN <<>> ELSE @]

\* A flush that appends the assistant's entry before the user's.
FlushCurrentTurnAssistantFirst(s) ==
    LET a  == Strip(s.current_assistant_text)
        h1 == IF a # <<>> THEN Append(s.history, [role |-> "assistant", text |-> a])
              ELSE s.history
        u  == Strip(s.current_user_text)
        h2 == IF u # <<>> THEN Append(h1, [role |-> "user", text |-> u])
              ELSE h1
    IN  [s EXCEPT !.history = Last(h2, MAX_HISTORY_TURNS * 2),
                  !.current_user_text = IF u # <<>> THEN <<>> ELSE @,
                  !.current_assistant_text = IF a # <<>> THEN <<>> ELSE @]

\* _flush_current_turn
FlushCurrentTurn(s) ==
    LET u  == Strip(s.current_user_text)
        h1 == IF u # <<>> THEN Append(s.history, [role |-> "user", text |-> u])
              ELSE s.history
        a  == Strip(s.current_assistant_text)
        h2 == IF a # <<>> THEN Append(h1, [role |-> "assistant", text |-> a])
              ELSE h1
    IN  [s EXCEPT !.history = Last(h2, MAX_HISTORY_TURNS * 2),
                  !.current_user_text = IF u # <<>> THEN <<>> ELSE @,
                  !.current_assistant_text = IF a # <<>> THEN <<>> ELSE @]

\* _build_continuation_prompt: the base prompt alone (no lines) on an empty
\* history, else the base prompt, one labelled line per recent turn and the
\* fixed instruction.  The prompt is represented by its lines.
BuildContinuationPrompt(s) ==
    LET recent == Last(s.history, MAX_HISTORY_TURNS)
    IN  [i \in 1..Len(recent) |->
            [label |-> IF recent[i].role = "user" THEN "User" ELSE "Assistant",
             text |-> recent[i].text]]

BasePrompt == <<>>

\* ------------------------------------------------------------------ tasks
NoIds == <<0, 0, 0>>

\* kind: caller | reader | timer.  fn: the session coroutine the task is in.
\* pc: the await it is suspended at.  io: the result the pending transport
\* call will report.  own: the identifiers drawn by the _open_stream call the
\* task is in.  sp: _open_stream's system_prompt argument.  wf: the task
\* awaited by wait_for.  rs: the stream the reader's pending read is on.
\* role, display_text: the reader's locals.  trail: what the close sequence
\* the task is in has handed to the transport.  last, eff, out: the last
\* call that returned, whether it passed its state guard, how it ended.
\* hit: the task's owner has cancelled it during the call it is in.
\* pr, pw: the reader and the timer task that reconnect() found in
\* self._response_task and self._session_timer_task when it cancelled them.
\* res: how a timer task itself ended.  was: the session as the reconnect()
\* the task is in found it.
NoSnapshot ==
    [history |-> <<>>, user |-> <<>>, assistant |-> <<>>, ids |-> NoIds,
     reconnections |-> 0]

NewTask(kind, fn, pc) ==
    [kind |-> kind, fn |-> fn, pc |-> pc, io |-> "ok", must_cancel |-> FALSE,
     own |-> NoIds, sp |-> BasePrompt, wf |-> 0, rs |-> 0, role |-> "None",
     display_text |-> FALSE, trail |-> <<>>, hit |-> FALSE, last |-> "none",
     eff |-> FALSE, out |-> "none", pr |-> 0, pw |-> 0, res |-> "none",
     was |-> NoSnapshot]

Done(task) == task.pc = "done"

\* A _session_timer that lets an exception of reconnect() out of the task.
SessionTimerExitPropagating(out) == IF out = "cancelled" THEN "ok" ELSE out

\* _session_timer's handlers: `except CancelledError: pass` and
\* `except Exception: logger.exception(...)`.  Whatever reaches them, the
\* task ends normally.
SessionTimerExit(out) == IF out \in {"cancelled", "exc"} THEN "ok" ELSE out

\* The coroutine `fn` of task t ends with outcome out (ok | exc | cancelled).
\* A caller gets the outcome.  In the timer task the outcome reaches
\* _session_timer, which swallows CancelledError and logs any Exception:
\* the task is done either way.
Ret(s, t, out, eff) ==
    LET me == s.tasks[t]
        fresh == NewTask(me.kind, "none", IF me.kind = "caller" THEN "idle" ELSE "done")
    IN  [s EXCEPT !.tasks[t] = [fresh EXCEPT !.eff = eff, !.out = out,
                                             !.last = IF me.kind = "reader" THEN "none"
                                                      ELSE me.fn,
                                             !.res = IF me.kind = "timer"
                                                     THEN SessionTimerExit(out)
                                                     ELSE "none"]]

\* asyncio.Task.cancel() on task tid.  A task suspended in wait_for on a task
\* that is not done passes the request on to that task and is itself resumed
\* with that task's result; any other task gets CancelledError at its next
\* resumption.
Cancel(s, tid) ==
    IF tid = 0 \/ Done(s.tasks[tid]) THEN s
    ELSE LET w == s.tasks[tid].wf
         IN  IF s.tasks[tid].pc = "wait" /\ ~Done(s.tasks[w])
             THEN [s EXCEPT !.tasks[w].must_cancel = TRUE]
             ELSE [s EXCEPT !.tasks[tid].must_cancel = TRUE]

\* -------------------------------------------------------------- transport
\* A message: its event name, its promptName and contentName (0 when it has
\* none), the content block it is about (system | audio | -) and its text.
Msg(type, p, c, block, text) ==
    [type |-> type, prompt |-> p, content |-> c, block |-> block, text |-> text]

\* The event name and block of setup event k of a segment.
SetupShape(k) ==
    <<  <<"sessionStart", "-">>, <<"promptStart", "-">>,
        <<"contentStart", "system">>, <<"textInput", "system">>,
        <<"contentEnd", "system">>, <<"contentStart", "audio">>  >>[k]

\* A stream as the remote end sees it.  open: its input side is open.  own:
\* the identifiers drawn by the _open_stream call that opened it.  n: the
\* messages received, counted up to 6.  prefix_ok: message k <= 6 was setup
\* event k.  started / ended: the audio block's contentStart / contentEnd
\* was received.  audio_ok: every audioInput came after the former and
\* before the latter.  ids_ok: every message carried identifiers of own
\* only.  prompt: the text of the last textInput.  audio: the audioInput
\* messages received.
NewStream(own) ==
    [open |-> TRUE, own |-> own, n |-> 0, prefix_ok |-> TRUE,
     started |-> FALSE, ended |-> FALSE, audio_ok |-> TRUE, ids_ok |-> TRUE,
     prompt |-> <<>>, audio |-> 0]

Receive(st, m) ==
    [st EXCEPT
        !.n = IF st.n < 6 THEN st.n + 1 ELSE 6,
        !.prefix_ok = @ /\ (st.n < 6 => <<m.type, m.block>> = SetupShape(st.n + 1)),
        !.started = @ \/ (m.type = "contentStart" /\ m.block = "audio"),
        !.ended = @ \/ (m.type = "contentEnd" /\ m.block = "audio"),
        !.audio_ok = @ /\ (m.type = "audioInput" => st.started /\ ~st.ended),
        !.ids_ok = @ /\ m.prompt \in {0, st.own[1]}
                     /\ m.content \in {0, IF m.block = "system" THEN st.own[2]
                                                                 ELSE st.own[3]},
        !.prompt = IF m.type = "textInput" THEN m.text ELSE @,
        !.audio = IF m.type = "audioInput" THEN @ + 1 ELSE @]

\* What the transport may answer to a call: a failure only within the budget.
IOs == IF faults < MaxFaults THEN {"ok", "err"} ELSE {"ok"}

\* _send_event: json.dumps, then await self._stream.input_stream.send(event).
\* The message is handed to self._stream as it is now; the task is then
\* suspended at pc.  A stream whose input side was closed refuses the send.
SendEvent(s, t, msg, pc, io) ==
    LET ok == io = "ok" /\ s.streams[s.stream].open
    IN  [s EXCEPT !.streams[s.stream] = IF ok THEN Receive(@, msg) ELSE @,
                  !.tasks[t].pc = pc,
                  !.tasks[t].io = IF ok THEN "ok" ELSE "err",
                  !.faults = IF io = "err" THEN @ + 1 ELSE @]

\* An exception leaves the coroutine the task is in.
Raise(s, t, out) == Ret(s, t, out, TRUE)

\* ------------------------------------------------------------ _open_stream
\* The setup events in the order of _open_stream, each built from the
\* identifiers the session holds when it is sent.
HandshakeMsg(s, k, sp) ==
    CASE k = 1 -> Msg("sessionStart", 0, 0, "-", <<>>)
      [] k = 2 -> Msg("promptStart", s.prompt_name, 0, "-", <<>>)
      [] k = 3 -> Msg("contentStart", s.prompt_name, s.system_content_name, "system", <<>>)
      [] k = 4 -> Msg("textInput", s.prompt_name, s.system_content_name, "system", sp)
      [] k = 5 -> Msg("contentEnd", s.prompt_name, s.system_content_name, "system", <<>>)
      [] k = 6 -> Msg("contentStart", s.prompt_name, s.audio_content_name, "audio", <<>>)

HsPc(k) == <<"hs1", "hs2", "hs3", "hs4", "hs5", "hs6">>[k]
HsPcs == {HsPc(k) : k \in 1..6}
HsNum(pc) == CHOOSE k \in 1..6 : HsPc(k) = pc

\* _open_stream up to its first await: three fresh uuid4 values, then
\* await self._client.invoke_model_with_bidirectional_stream(...)
OpenStream(s, t, sp) ==
    [s EXCEPT !.prompt_name = s.uuid + 1,
              !.system_content_name = s.uuid + 2,
              !.audio_content_name = s.uuid + 3,
              !.uuid = s.uuid + 3,
              !.tasks[t].pc = "open",
              !.tasks[t].own = <<s.uuid + 1, s.uuid + 2, s.uuid + 3>>,
              !.tasks[t].sp = sp]

\* asyncio.create_task(self._process_responses()) and
\* asyncio.create_task(self._session_timer()).  A timer task does nothing
\* before its sleep, so it is created asleep.
CreateTasks(s) ==
    LET r == Len(s.tasks) + 1
    IN  [s EXCEPT !.tasks = @ \o <<NewTask("reader", "reader", "new"),
                                   NewTask("timer", "timer", "sleep")>>,
                  !.response_task = r,
                  !.session_timer_task = r + 1]

\* self._on_reconnect(): the bridges' callbacks only log.
OnReconnect(s) == s

\* if self._on_reconnect: self._on_reconnect() -- the call stands outside
\* any try, so what the callback raises leaves reconnect().
NotifyOutcome(s, t) ==
    IF s.tasks[t].fn = "reconnect" /\ s.on_reconnect = "raises" THEN "exc" ELSE "ok"

\* start() and reconnect() after _open_stream has returned.
Established(s, t) ==
    LET s1 == [s EXCEPT !.state = "active"]
        s2 == IF s.tasks[t].fn = "reconnect"
              THEN [s1 EXCEPT !.metrics.reconnections = @ + 1]
              ELSE s1
        s3 == CreateTasks(s2)
    IN  Ret(IF s.tasks[t].fn = "reconnect" THEN OnReconnect(s3) ELSE s3, t,
            NotifyOutcome(s, t), TRUE)

\* The task resumes from the await of the stream open: res is the answer.
OpenResume(s, t, res, io) ==
    LET me == s.tasks[t]
    IN  IF me.must_cancel THEN Raise(s, t, "cancelled")
        ELSE IF res = "err" THEN Raise([s EXCEPT !.faults = @ + 1], t, "exc")
        ELSE LET s1 == [s EXCEPT !.streams = Append(@, NewStream(me.own)),
                                 !.stream = Len(s.streams) + 1]
             IN  SendEvent(s1, t, HandshakeMsg(s1, 1, me.sp), HsPc(1), io)

\* The task resumes from the await of setup event k.
HandshakeResume(s, t, io) ==
    LET me == s.tasks[t]
        k  == HsNum(me.pc)
    IN  IF me.must_cancel THEN Raise(s, t, "cancelled")
        ELSE IF me.io = "err" THEN Raise(s, t, "exc")
        ELSE IF k < 6 THEN SendEvent(s, t, HandshakeMsg(s, k + 1, me.sp), HsPc(k + 1), io)
        ELSE Established(s, t)

\* ------------------------------------------------- the close sequence
CloseMsg(s, k) ==
    CASE k = 1 -> Msg("contentEnd", s.prompt_name, s.audio_content_name, "audio", <<>>)
      [] k = 2 -> Msg("promptEnd", s.prompt_name, 0, "-", <<>>)
      [] k = 3 -> Msg("sessionEnd", 0, 0, "-", <<>>)

ClPc(k) == <<"cl1", "cl2", "cl3", "cl4">>[k]
ClPcs == {ClPc(k) : k \in 1..4}
ClNum(pc) == CHOOSE k \in 1..4 : ClPc(k) = pc
CloseStepName(k) == <<"contentEnd", "promptEnd", "sessionEnd", "close">>[k]

\* Step k of the close sequence of reconnect() and stop(): three events,
\* then await self._stream.input_stream.close().
CloseSend(s, t, k, io) ==
    LET ok == io = "ok" /\ s.streams[s.stream].open
        s1 == IF k < 4 THEN SendEvent(s, t, CloseMsg(s, k), ClPc(k), io)
              ELSE [s EXCEPT !.streams[s.stream].open = IF ok THEN FALSE ELSE @,
                             !.tasks[t].pc = ClPc(4),
                             !.tasks[t].io = IF ok THEN "ok" ELSE "err",
                             !.faults = IF io = "err" THEN @ + 1 ELSE @]
    IN  [s1 EXCEPT !.tasks[t].trail = IF ok THEN Append(@, CloseStepName(k)) ELSE @]

\* A reconnect() that builds the continuation prompt from the history it
\* found when it was called, before the flush.
AfterCloseStalePrompt(s, t) ==
    IF s.tasks[t].fn = "stop"
    THEN Ret([s EXCEPT !.state = "closed", !.stopped = TRUE], t, "ok", TRUE)
    ELSE OpenStream(s, t, BuildContinuationPrompt(
                              [s EXCEPT !.history = s.tasks[t].was.history]))

\* After the try/except around the close sequence: stop() ends Closed,
\* reconnect() builds the continuation prompt and opens the new stream.
AfterClose(s, t) ==
    IF s.tasks[t].fn = "stop"
    THEN Ret([s EXCEPT !.state = "closed", !.stopped = TRUE], t, "ok", TRUE)
    ELSE OpenStream(s, t, BuildContinuationPrompt(s))

\* Entering the try: with no stream (None) the first _send_event raises
\* AttributeError at once, which except Exception swallows.  The task does
\* not suspend: at pc "cl0" it is still running, and its next step (the code
\* after the try) is the next step of the loop.
CloseBegin(s, t, io) ==
    LET s0 == [s EXCEPT !.tasks[t].trail = <<>>]
    IN  IF s.stream = 0 THEN [s0 EXCEPT !.tasks[t].pc = "cl0"]
        ELSE CloseSend(s0, t, 1, io)

\* A close sequence that lets a failure of one of its steps out (no
\* try/except around it).
CloseResumeRaising(s, t, io) ==
    LET me == s.tasks[t]
        k  == ClNum(me.pc)
    IN  IF me.pc = "cl0" THEN Raise(s, t, "exc")
        ELSE IF me.must_cancel THEN Raise(s, t, "cancelled")
        ELSE IF me.io = "err" THEN Raise(s, t, "exc")
        ELSE IF k = 4 THEN AfterClose(s, t)
        ELSE CloseSend(s, t, k + 1, io)

\* The task resumes from await k of the close sequence.  CancelledError is
\* not an Exception: it leaves reconnect() / stop().
CloseResume(s, t, io) ==
    LET me == s.tasks[t]
        k  == ClNum(me.pc)
    IN  IF me.pc = "cl0" THEN AfterClose(s, t)
        ELSE IF me.must_cancel THEN Raise(s, t, "cancelled")
        ELSE IF me.io = "err" \/ k = 4 THEN AfterClose(s, t)
        ELSE CloseSend(s, t, k + 1, io)

\* if self._response_task: await asyncio.wait_for(self._response_task, 2.0),
\* CancelledError and TimeoutError swallowed.  A done task is returned at
\* once; else the task suspends and a cancellation pending for it goes on
\* to the reader.
AwaitReader(s, t, io) ==
    LET r == s.response_task
    IN  IF r = 0 \/ Done(s.tasks[r]) THEN CloseBegin(s, t, io)
        ELSE LET s1 == [s EXCEPT !.tasks[t].pc = "wait", !.tasks[t].wf = r]
             IN  IF s.tasks[t].must_cancel
                 THEN [s1 EXCEPT !.tasks[r].must_cancel = TRUE,
                                 !.tasks[t].must_cancel = FALSE]
                 ELSE s1

\* The task resumes from wait_for once the reader is done; a cancellation
\* that reached it meanwhile is swallowed by the except clause.
WaitResume(s, t, io) ==
    CloseBegin([s EXCEPT !.tasks[t].must_cancel = FALSE, !.tasks[t].wf = 0], t, io)

\* for task in [self._response_task, self._session_timer_task]:
\*     if task and not task.done(): task.cancel()
CancelTasks(s) == Cancel(Cancel(s, s.response_task), s.session_timer_task)

\* ---------------------------------------------------- the public coroutines
\* A start() without its state guard.
StartBeginUnguarded(s, t) ==
    OpenStream([s EXCEPT !.tasks[t].fn = "start", !.state = "connecting",
                         !.client = TRUE, !.opens = @ + 1, !.stopped = FALSE],
               t, BasePrompt)

\* start() up to its first await
StartBegin(s, t) ==
    LET s0 == [s EXCEPT !.tasks[t].fn = "start"]
    IN  IF s.state \notin {"idle", "closed"} THEN Ret(s0, t, "ok", FALSE)
        ELSE OpenStream([s0 EXCEPT !.state = "connecting", !.client = TRUE,
                                   !.opens = @ + 1, !.stopped = FALSE],
                        t, BasePrompt)

\* A reconnect() that neither cancels nor awaits the old tasks.
ReconnectBeginNoTeardown(s, t, io) ==
    LET s0 == [s EXCEPT !.tasks[t].fn = "reconnect"]
    IN  IF s.state \notin {"active", "reconnecting"} THEN Ret(s0, t, "ok", FALSE)
        ELSE CloseBegin(
                FlushCurrentTurn(
                    [s0 EXCEPT !.state = "reconnecting", !.opens = @ + 1,
                               !.tasks[t].pr = s.response_task,
                               !.tasks[t].pw = s.session_timer_task]),
                t, io)

\* History, buffers, identifiers and counter as a call finds them.
Snapshot(s) ==
    [history |-> s.history, user |-> s.current_user_text,
     assistant |-> s.current_assistant_text,
     ids |-> <<s.prompt_name, s.system_content_name, s.audio_content_name>>,
     reconnections |-> s.metrics.reconnections]

\* reconnect() up to its first await
ReconnectBegin(s, t, io) ==
    LET s0 == [s EXCEPT !.tasks[t].fn = "reconnect"]
    IN  IF s.state \notin {"active", "reconnecting"} THEN Ret(s0, t, "ok", FALSE)
        ELSE AwaitReader(
                CancelTasks(FlushCurrentTurn(
                    [s0 EXCEPT !.state = "reconnecting", !.opens = @ + 1,
                               !.tasks[t].pr = s.response_task,
                               !.tasks[t].pw = s.session_timer_task,
                               !.tasks[t].was = Snapshot(s)])),
                t, io)

\* A stop() whose guard lets a Closed session through.
StopBeginFromClosed(s, t, io) ==
    LET s0 == [s EXCEPT !.tasks[t].fn = "stop"]
    IN  IF s.state \in {"idle", "closing"} THEN Ret(s0, t, "ok", FALSE)
        ELSE AwaitReader(
                CancelTasks(FlushCurrentTurn(
                    [s0 EXCEPT !.should_reconnect = FALSE, !.state = "closing"])),
                t, io)

\* _inject_response up to its first await: two synthetic turns are appended
\* to session._history, then `await self._session.reconnect()`.
AiryTurnsFor(prompt, response) ==
    <<[role |-> "user", text |-> <<"[Airy was asked: ">> \o prompt \o <<"]">>],
      [role |-> "assistant", text |-> <<"[Airy responded: ">> \o response \o <<"]">>]>>

AiryTurns == AiryTurnsFor(<<"q">>, <<"r">>)

\* An injection that calls reconnect() before it appends the turns (the
\* reconnect() suspends, or returns at its guard, without them).
InjectResponseLate(s, t, io, prompt, response) ==
    LET s1 == ReconnectBegin(s, t, io)
    IN  [s1 EXCEPT !.history = @ \o AiryTurnsFor(prompt, response)]

InjectResponseWith(s, t, io, prompt, response) ==
    ReconnectBegin([s EXCEPT !.history = @ \o AiryTurnsFor(prompt, response)], t, io)

InjectResponse(s, t, io) == InjectResponseWith(s, t, io, <<"q">>, <<"r">>)

\* stop() up to its first await
StopBegin(s, t, io) ==
    LET s0 == [s EXCEPT !.tasks[t].fn = "stop"]
    IN  IF s.state \in {"idle", "closing", "closed"} THEN Ret(s0, t, "ok", FALSE)
        ELSE AwaitReader(
                CancelTasks(FlushCurrentTurn(
                    [s0 EXCEPT !.should_reconnect = FALSE, !.state = "closing"])),
                t, io)

\* A send_audio() that gates on the stream instead of the state.
SendAudioBeginAnyState(s, t, io) ==
    LET s0 == [s EXCEPT !.tasks[t].fn = "send_audio"]
    IN  IF s.stream = 0 THEN Ret(s0, t, "ok", FALSE)
        ELSE SendEvent(s0, t,
                       Msg("audioInput", s.prompt_name, s.audio_content_name, "audio", <<>>),
                       "audio", io)

\* send_audio() up to its await
SendAudioBegin(s, t, io) ==
    LET s0 == [s EXCEPT !.tasks[t].fn = "send_audio"]
    IN  IF s.state # "active" THEN Ret(s0, t, "ok", FALSE)
        ELSE SendEvent(s0, t,
                       Msg("audioInput", s.prompt_name, s.audio_content_name, "audio", <<>>),
                       "audio", io)

\* send_audio() after its await
SendAudioResume(s, t) ==
    IF s.tasks[t].must_cancel THEN Raise(s, t, "cancelled")
    ELSE IF s.tasks[t].io = "err" THEN Raise(s, t, "exc")
    ELSE Ret([s EXCEPT !.metrics.audio_chunks_sent = @ + 1], t, "ok", TRUE)

\* ------------------------------------------------------ _process_responses
\* The inbound events the remote model may deliver (result.value.bytes_
\* decoded).
\* A decoded message.  ev: the key of its "event" object ("noevent": the
\* message has no "event" key; "empty": the result carries no bytes).  role,
\* speculative: a contentStart's role and whether its additionalModelFields
\* give generationStage SPECULATIVE.  content, has_content: the "content"
\* of a textOutput or audioOutput and whether the key is there.
Event(ev, role, speculative, content, has_content) ==
    [ev |-> ev, role |-> role, speculative |-> speculative,
     content |-> content, has_content |-> has_content]

InboundEvents ==
    {Event("contentStart", "USER", FALSE, <<>>, TRUE),
     Event("textOutput", "-", FALSE, <<"x">>, TRUE)}

\* event["textOutput"]["content"] and event["audioOutput"]["content"] raise
\* KeyError when the key is missing.
Malformed(e) == e.ev \in {"textOutput", "audioOutput"} /\ ~e.has_content

\* base64.b64decode of a text given as its characters: four characters of
\* the alphabet carry three bytes, "=" pads the last group.  A text that is
\* not made of whole groups raises binascii.Error.
B64Alphabet ==
    <<"A", "B", "C", "D", "E", "F", "G", "H", "I", "J", "K", "L", "M", "N", "O", "P",
      "Q", "R", "S", "T", "U", "V", "W", "X", "Y", "Z", "a", "b", "c", "d", "e", "f",
      "g", "h", "i", "j", "k", "l", "m", "n", "o", "p", "q", "r", "s", "t", "u", "v",
      "w", "x", "y", "z", "0", "1", "2", "3", "4", "5", "6", "7", "8", "9", "+", "/">>

B64Index(ch) == (CHOOSE i \in 1..64 : B64Alphabet[i] = ch) - 1

B64Pads(c) == Cardinality({i \in 1..Len(c) : c[i] = "="})

B64Valid(c) ==
    /\ Len(c) % 4 = 0
    /\ B64Pads(c) <= 2
    /\ \A i \in 1..Len(c) :
          IF c[i] = "=" THEN i > Len(c) - B64Pads(c)
          ELSE \E k \in 1..64 : B64Alphabet[k] = c[i]

\* The bytes of one group of four characters.
B64Group(g) ==
    LET ix(i) == IF g[i] = "=" THEN 0 ELSE B64Index(g[i])
        v     == ix(1) * 262144 + ix(2) * 4096 + ix(3) * 64 + ix(4)
    IN  SubSeq(<<v \div 65536, (v \div 256) % 256, v % 256>>, 1, 3 - B64Pads(g))

RECURSIVE B64Decode(_)
B64Decode(c) ==
    IF c = <<>> THEN <<>>
    ELSE B64Group(SubSeq(c, 1, 4)) \o B64Decode(SubSeq(c, 5, Len(c)))

\* The loop body raises on message e.
Raises(e) ==
    \/ Malformed(e)
    \/ e.ev = "audioOutput" /\ ~B64Valid(e.content)

\* A put() that goes to the head of the queue.
QueuePutFirst(s, chunk) ==
    [s EXCEPT !.audio_output_queue = <<chunk>> \o @]

\* await self._audio_output_queue.put(audio_bytes): the queue has no size
\* limit, so put() never waits.
QueuePut(s, chunk) ==
    [s EXCEPT !.audio_output_queue = Append(@, chunk)]

\* A callback log that puts the newest call first.
OnTextNewestFirst(s, role, text) ==
    [s EXCEPT !.text_calls = <<[role |-> role, text |-> text]>> \o @]

\* self._on_text(role, text)
OnText(s, role, text) ==
    [s EXCEPT !.text_calls = Append(@, [role |-> role, text |-> text])]

\* A loop body that takes the assistant's text whatever its generation stage.
ProcessEventAnyStage(s, t, e) ==
    LET me == s.tasks[t]
        s1 == [s EXCEPT !.metrics.events_received = @ + 1]
    IN  CASE e.ev = "empty" -> s
          [] Raises(e) -> s1
          [] e.ev = "contentStart" ->
                [s1 EXCEPT !.tasks[t].role = e.role,
                           !.tasks[t].display_text = e.speculative]
          [] e.ev = "textOutput" ->
                IF me.role = "ASSISTANT"
                THEN OnText([s1 EXCEPT !.current_assistant_text = @ \o e.content],
                            "assistant", e.content)
                ELSE IF me.role = "USER"
                THEN OnText([s1 EXCEPT !.current_user_text = @ \o e.content],
                            "user", e.content)
                ELSE s1
          [] e.ev = "audioOutput" ->
                QueuePut([s1 EXCEPT !.metrics.audio_chunks_received = @ + 1],
                         B64Decode(e.content))
          [] e.ev = "completionEnd" ->
                FlushCurrentTurn([s1 EXCEPT !.metrics.turns_completed = @ + 1])
          [] OTHER -> s1

\* The body of the loop for one decoded message (for one it raises on: up to
\* the exception).
ProcessEvent(s, t, e) ==
    LET me == s.tasks[t]
        s1 == [s EXCEPT !.metrics.events_received = @ + 1]
    IN  CASE e.ev = "empty" -> s
          [] Raises(e) -> s1
          [] e.ev = "contentStart" ->
                [s1 EXCEPT !.tasks[t].role = e.role,
                           !.tasks[t].display_text = e.speculative]
          [] e.ev = "textOutput" ->
                IF me.role = "ASSISTANT" /\ me.display_text
                THEN OnText([s1 EXCEPT !.current_assistant_text = @ \o e.content],
                            "assistant", e.content)
                ELSE IF me.role = "USER"
                THEN OnText([s1 EXCEPT !.current_user_text = @ \o e.content],
                            "user", e.content)
                ELSE s1
          [] e.ev = "audioOutput" ->
                QueuePut([s1 EXCEPT !.metrics.audio_chunks_received = @ + 1],
                         B64Decode(e.content))
          [] e.ev = "completionEnd" ->
                FlushCurrentTurn([s1 EXCEPT !.metrics.turns_completed = @ + 1])
          [] OTHER -> s1

\* The reader ends: normally, by a swallowed CancelledError or by a swallowed
\* (logged) exception of the stream.
ReaderEnd(s, t, out) == Ret(s, t, IF out = "exc" THEN "ok" ELSE out, TRUE)

\* while self.is_active: output = await self._stream.await_output()
ReaderLoop(s, t) ==
    IF s.state # "active" THEN ReaderEnd(s, t, "ok")
    ELSE [s EXCEPT !.tasks[t].pc = "await_output", !.tasks[t].rs = s.stream]

\* The first step of the reader task.
ReaderFirst(s, t) ==
    IF s.tasks[t].must_cancel THEN ReaderEnd(s, t, "cancelled")
    ELSE ReaderLoop(s, t)

\* The reader resumes from await_output(): result = await output[1].receive()
ReaderOutput(s, t, res) ==
    IF s.tasks[t].must_cancel THEN ReaderEnd(s, t, "cancelled")
    ELSE IF res = "err" THEN ReaderEnd(s, t, "exc")
    ELSE [s EXCEPT !.tasks[t].pc = "receive"]

\* The reader resumes from receive() with message e.  An exception of the
\* loop body ends the loop: the try encloses the while.
ReaderReceive(s, t, res, e) ==
    IF s.tasks[t].must_cancel THEN ReaderEnd(s, t, "cancelled")
    ELSE IF res = "err" THEN ReaderEnd(s, t, "exc")
    ELSE LET s1 == ProcessEvent(s, t, e)
         IN  IF Raises(e) THEN ReaderEnd(s1, t, "exc") ELSE ReaderLoop(s1, t)

\* ---------------------------------------------------------- _session_timer
\* The timer resumes from asyncio.sleep(SESSION_TIMEOUT_SECONDS).
TimerResume(s, t, io) ==
    IF s.tasks[t].must_cancel THEN Ret(s, t, "cancelled", FALSE)
    ELSE IF s.state = "active"
    THEN ReconnectBegin([s EXCEPT !.should_reconnect = TRUE], t, io)
    ELSE Ret(s, t, "ok", FALSE)

\* ----------------------------------------------------------------- actions
\* NovaSonicSession(...): every attribute but the history.
Constructed ==
    /\ state = "idle"
    /\ client = FALSE
    /\ stream = 0
    /\ prompt_name = 0
    /\ system_content_name = 0
    /\ audio_content_name = 0
    /\ current_user_text = <<>>
    /\ current_assistant_text = <<>>
    /\ response_task = 0
    /\ session_timer_task = 0
    /\ should_reconnect = FALSE
    /\ metrics = [events_received |-> 0, audio_chunks_sent |-> 0,
                  audio_chunks_received |-> 0, turns_completed |-> 0,
                  reconnections |-> 0]
    /\ tasks = [t \in Callers |-> NewTask("caller", "none", "idle")]
    /\ streams = <<>>
    /\ uuid = 0
    /\ calls = [t \in Callers |-> 0]
    /\ opens = 0
    /\ faults = 0
    /\ stopped = FALSE
    /\ on_reconnect = "logs"
    /\ text_calls = <<>>
    /\ inbound = <<>>
    /\ audio_output_queue = <<>>
    /\ played = <<>>

Init == Constructed /\ history = <<>> /\ AsideIdle

\* The tasks whose next step is already scheduled on the loop, or (at cl0)
\* still running.
Urgent ==
    {t \in DOMAIN tasks :
        \/ tasks[t].pc \in {"new", "cl0"}
        \/ tasks[t].pc = "wait" /\ Done(tasks[tasks[t].wf])
        \/ tasks[t].must_cancel /\ tasks[t].pc \notin {"done", "idle"}}

\* Task t may take the next step of the loop.
Runnable(t) == Urgent = {} \/ t \in Urgent

\* calls[t]: the calls of the public API task t has made.
Called(s, t) == [s EXCEPT !.calls[t] = @ + 1]
CanCall(t) ==
    /\ tasks[t].pc = "idle"
    /\ calls[App] + calls[Dispatch] < MaxCalls
    /\ Urgent = {}

\* `await session.stop()` twice in a row: when the first call has returned
\* in this step, the second one starts in the same step, before the loop
\* runs anything else.
StopAgain(s, t, io, again) ==
    IF /\ again
       /\ s.tasks[t].pc = "idle" /\ s.tasks[t].last = "stop" /\ s.tasks[t].eff
       /\ s.calls[App] + s.calls[Dispatch] < MaxCalls
    THEN StopBegin(Called(s, t), t, io)
    ELSE s

\* await session.start()
CallStart(t) ==
    /\ CanCall(t)
    /\ state \in {"idle", "closed"} => opens < MaxOpens
    /\ Commit(StartBegin(Called(Cur, t), t))

\* await session.reconnect()
CallReconnect(t) ==
    /\ CanCall(t)
    /\ state \in {"active", "reconnecting"} => opens < MaxOpens
    /\ \E io \in IOs : Commit(ReconnectBegin(Called(Cur, t), t, io))

\* await session.stop()
CallStop(t) ==
    /\ CanCall(t)
    /\ \E io \in IOs : Commit(StopBegin(Called(Cur, t), t, io))

\* await session.send_audio(pcm)
CallSendAudio(t) ==
    /\ CanCall(t)
    /\ \E io \in IOs : Commit(SendAudioBegin(Called(Cur, t), t, io))

\* The stream open completes.
OpenStep(t) ==
    /\ tasks[t].pc = "open"
    /\ Runnable(t)
    /\ \E res \in IOs, io \in IOs : Commit(OpenResume(Cur, t, res, io))

\* A setup event's send completes.
HandshakeStep(t) ==
    /\ tasks[t].pc \in HsPcs
    /\ Runnable(t)
    /\ \E io \in IOs : Commit(HandshakeResume(Cur, t, io))

\* wait_for returns: the awaited reader is done.
WaitStep(t) ==
    /\ tasks[t].pc = "wait"
    /\ Runnable(t)
    /\ Done(tasks[tasks[t].wf])
    /\ \E io \in IOs : Commit(WaitResume(Cur, t, io))

\* A step of the close sequence completes.
CloseStep(t) ==
    /\ tasks[t].pc \in ClPcs \cup {"cl0"}
    /\ Runnable(t)
    /\ \E io \in IOs, again \in BOOLEAN :
          Commit(StopAgain(CloseResume(Cur, t, io), t, io, again))

\* The audioInput send completes.
SendAudioStep(t) ==
    /\ tasks[t].pc = "audio"
    /\ Runnable(t)
    /\ Commit(SendAudioResume(Cur, t))

\* What a pending read of the reader may answer: a message while the stream
\* is open and the remote has more to say, a failure once the stream was
\* closed or within the budget of failures.
ReadAnswers(t) ==
    LET open == streams[tasks[t].rs].open
    IN  (IF open /\ metrics.events_received < MaxEvents THEN {"ok"} ELSE {})
        \cup (IF ~open \/ faults < MaxFaults THEN {"err"} ELSE {})

Faulted(s, t, res) ==
    IF res = "err" /\ s.streams[s.tasks[t].rs].open /\ ~s.tasks[t].must_cancel
    THEN [s EXCEPT !.faults = @ + 1] ELSE s

ReaderStart(t) ==
    /\ tasks[t].pc = "new"
    /\ Runnable(t)
    /\ Commit(ReaderFirst(Cur, t))

ReaderOutputStep(t) ==
    /\ tasks[t].pc = "await_output"
    /\ Runnable(t)
    /\ \/ tasks[t].must_cancel /\ Commit(ReaderOutput(Cur, t, "ok"))
       \/ \E res \in ReadAnswers(t) : Commit(ReaderOutput(Faulted(Cur, t, res), t, res))

ReaderReceiveStep(t) ==
    /\ tasks[t].pc = "receive"
    /\ Runnable(t)
    /\ \/ tasks[t].must_cancel /\ Commit(ReaderReceive(Cur, t, "ok", CHOOSE e \in InboundEvents : TRUE))
       \/ \E res \in ReadAnswers(t) : \E e \in InboundEvents :
             Commit(ReaderReceive(Faulted(Cur, t, res), t, res, e))

\* The sleep of a timer task ends (or its cancellation is delivered).
TimerStep(t) ==
    /\ tasks[t].pc = "sleep"
    /\ Runnable(t)
    /\ (~tasks[t].must_cancel /\ state = "active") => opens < MaxOpens
    /\ \E io \in IOs : Commit(TimerResume(Cur, t, io))

\* The owner of a caller task that is inside reconnect() cancels it
\* (AiryOrchestrator._dispatch_to_airy / stop cancel the dispatch task).
CancelCaller(t) ==
    /\ tasks[t].fn = "reconnect"
    /\ tasks[t].kind = "caller"
    /\ ~tasks[t].hit
    /\ Urgent = {}
    /\ Commit(Cancel([Cur EXCEPT !.tasks[t].hit = TRUE], t))

Next ==
    \/ CallStart(App)
    \/ \E t \in Callers : CallReconnect(t)
    \/ \E t \in Callers : CallStop(t)
    \/ CallSendAudio(App)
    \/ \E t \in DOMAIN tasks : OpenStep(t)
    \/ \E t \in DOMAIN tasks : HandshakeStep(t)
    \/ \E t \in DOMAIN tasks : WaitStep(t)
    \/ \E t \in DOMAIN tasks : CloseStep(t)
    \/ \E t \in DOMAIN tasks : SendAudioStep(t)
    \/ \E t \in DOMAIN tasks : ReaderStart(t)
    \/ \E t \in DOMAIN tasks : ReaderOutputStep(t)
    \/ \E t \in DOMAIN tasks : ReaderReceiveStep(t)
    \/ \E t \in DOMAIN tasks : TimerStep(t)
    \/ CancelCaller(Dispatch)

Spec == Init /\ [][Next]_vars

\* ------------------------------------------- one call at a time, long history
\* A session some way into a conversation: start() has returned, the reader
\* and the timer run, the history holds n finished turns (the first one
\* marked as the oldest) and the buffers hold what the reader has
\* accumulated since.  The transport does not fail and the timeout does not
\* elapse; the application and the orchestrator's dispatch task call
\* reconnect(), stop() and _inject_response one after the other.
OldHistory(n) ==
    [i \in 1..n |-> [role |-> IF i % 2 = 1 THEN "user" ELSE "assistant",
                     text |-> IF i = 1 THEN <<"o">> ELSE <<"a">>]]

HistoryLengths == {0, 2, 2 * MAX_HISTORY_TURNS - 1, 2 * MAX_HISTORY_TURNS}

Buffers == {<<>>, <<" ">>, <<" ", "x", " ">>}

\* The stream of a session whose six setup events have been sent.
SetUpStream(own) ==
    [NewStream(own) EXCEPT !.n = 6, !.started = TRUE, !.prompt = BasePrompt]

SeqInit ==
    /\ state = "active"
    /\ client = TRUE
    /\ stream = 1
    /\ prompt_name = 1
    /\ system_content_name = 2
    /\ audio_content_name = 3
    /\ history \in {OldHistory(n) : n \in HistoryLengths}
    /\ current_user_text \in Buffers
    /\ current_assistant_text \in Buffers
    /\ response_task = 3
    /\ session_timer_task = 4
    /\ should_reconnect = FALSE
    /\ metrics = [events_received |-> 0, audio_chunks_sent |-> 0,
                  audio_chunks_received |-> 0, turns_completed |-> 0,
                  reconnections |-> 0]
    /\ tasks = <<NewTask("caller", "none", "idle"), NewTask("caller", "none", "idle"),
                 [NewTask("reader", "reader", "await_output") EXCEPT !.rs = 1],
                 NewTask("timer", "timer", "sleep")>>
    /\ streams = <<SetUpStream(<<1, 2, 3>>)>>
    /\ uuid = 3
    /\ calls = [t \in Callers |-> 0]
    /\ opens = 1
    /\ faults = MaxFaults
    /\ stopped = FALSE
    /\ on_reconnect \in {"none", "logs", "raises"}
    /\ text_calls = <<>>
    /\ inbound = <<>>
    /\ audio_output_queue = <<>>
    /\ played = <<>>
    /\ AsideIdle

\* No call of the session is in progress.
Quiet == \A u \in Callers : tasks[u].pc = "idle"

\* await self._inject_response(prompt, response) in the dispatch task
CallInject(t) ==
    /\ CanCall(t)
    /\ state \in {"active", "reconnecting"} => opens < MaxOpens
    /\ \E io \in IOs : Commit(InjectResponse(Called(Cur, t), t, io))

\* A cancelled timer task ends; the timeout itself does not elapse.
TimerCancelled(t) == tasks[t].must_cancel /\ TimerStep(t)

SeqNext ==
    \/ Quiet /\ CallReconnect(App)
    \/ Quiet /\ CallStop(App)
    \/ Quiet /\ CallInject(Dispatch)
    \/ \E t \in DOMAIN tasks : OpenStep(t)
    \/ \E t \in DOMAIN tasks : HandshakeStep(t)
    \/ \E t \in DOMAIN tasks : WaitStep(t)
    \/ \E t \in DOMAIN tasks : CloseStep(t)
    \/ \E t \in DOMAIN tasks : ReaderStart(t)
    \/ \E t \in DOMAIN tasks : ReaderOutputStep(t)
    \/ \E t \in DOMAIN tasks : ReaderReceiveStep(t)
    \/ \E t \in DOMAIN tasks : TimerCancelled(t)

SeqSpec == SeqInit /\ [][SeqNext]_vars

\* ------------------------------------------------- the watchdog on its own
\* An Active session that no caller touches: the reader receives messages
\* or ends on a failure of the stream, and the sleep of the watchdog ends.
WatchdogInit ==
    /\ state = "active"
    /\ client = TRUE
    /\ stream = 1
    /\ prompt_name = 1
    /\ system_content_name = 2
    /\ audio_content_name = 3
    /\ history \in {OldHistory(n) : n \in {0, 2}}
    /\ current_user_text \in Buffers
    /\ current_assistant_text = <<>>
    /\ response_task = 3
    /\ session_timer_task = 4
    /\ should_reconnect = FALSE
    /\ metrics = [events_received |-> 0, audio_chunks_sent |-> 0,
                  audio_chunks_received |-> 0, turns_completed |-> 0,
                  reconnections |-> 0]
    /\ tasks = <<NewTask("caller", "none", "idle"), NewTask("caller", "none", "idle"),
                 [NewTask("reader", "reader", "await_output") EXCEPT !.rs = 1],
                 NewTask("timer", "timer", "sleep")>>
    /\ streams = <<SetUpStream(<<1, 2, 3>>)>>
    /\ uuid = 3
    /\ calls = [t \in Callers |-> 0]
    /\ opens = 1
    /\ faults = 0
    /\ stopped = FALSE
    /\ on_reconnect \in {"none", "logs"}
    /\ text_calls = <<>>
    /\ inbound = <<>>
    /\ audio_output_queue = <<>>
    /\ played = <<>>
    /\ AsideIdle

WatchdogNext ==
    \/ \E t \in DOMAIN tasks : TimerStep(t)
    \/ \E t \in DOMAIN tasks : OpenStep(t)
    \/ \E t \in DOMAIN tasks : HandshakeStep(t)
    \/ \E t \in DOMAIN tasks : WaitStep(t)
    \/ \E t \in DOMAIN tasks : CloseStep(t)
    \/ \E t \in DOMAIN tasks : ReaderStart(t)
    \/ \E t \in DOMAIN tasks : ReaderOutputStep(t)
    \/ \E t \in DOMAIN tasks : ReaderReceiveStep(t)

WatchdogSpec == WatchdogInit /\ [][WatchdogNext]_vars

\* ------------------------------------------- audio out, one call at a time
\* A session that start() has just made Active, receiving audio while the
\* application calls stop(), start() and reconnect() one after the other and
\* the playback loop of the agent takes chunks from the queue.  The service
\* sends two audio chunks with different payloads and one that cannot be
\* decoded; the messages handed to the reader are kept in inbound.
AudioEvents ==
    {Event("audioOutput", "-", FALSE, <<"Q", "Q", "=", "=">>, TRUE),
     Event("audioOutput", "-", FALSE, <<"Q", "k", "M", "=">>, TRUE),
     Event("audioOutput", "-", FALSE, <<"Q">>, TRUE)}

AudioOutInit ==
    /\ SeqInit
    /\ history = <<>>
    /\ current_user_text = <<>>
    /\ current_assistant_text = <<>>
    /\ on_reconnect = "logs"

\* The reader resumes from receive(); a message it is handed is recorded.
AudioReceiveStep(t) ==
    /\ tasks[t].pc = "receive"
    /\ Runnable(t)
    /\ \/ tasks[t].must_cancel
          /\ Commit(ReaderReceive(Cur, t, "ok", CHOOSE e \in AudioEvents : TRUE))
       \/ \E res \in ReadAnswers(t) : \E e \in AudioEvents :
             Commit([ReaderReceive(Faulted(Cur, t, res), t, res, e)
                        EXCEPT !.inbound = IF res = "ok" /\ ~tasks[t].must_cancel
                                           THEN Append(@, e) ELSE @])

\* agent.py _playback_loop: audio_data = await audio_output_queue.get()
PlaybackGet ==
    /\ audio_output_queue # <<>>
    /\ Commit([Cur EXCEPT !.audio_output_queue = Tail(@),
                          !.played = Append(@, Head(audio_output_queue))])

AudioOutNext ==
    \/ Quiet /\ CallStart(App)
    \/ Quiet /\ CallReconnect(App)
    \/ Quiet /\ CallStop(App)
    \/ \E t \in DOMAIN tasks : OpenStep(t)
    \/ \E t \in DOMAIN tasks : HandshakeStep(t)
    \/ \E t \in DOMAIN tasks : WaitStep(t)
    \/ \E t \in DOMAIN tasks : CloseStep(t)
    \/ \E t \in DOMAIN tasks : ReaderStart(t)
    \/ \E t \in DOMAIN tasks : ReaderOutputStep(t)
    \/ \E t \in DOMAIN tasks : AudioReceiveStep(t)
    \/ \E t \in DOMAIN tasks : TimerCancelled(t)
    \/ PlaybackGet

AudioOutSpec == AudioOutInit /\ [][AudioOutNext]_vars

\* ------------------------------------------- the orchestrator's dispatches
\* An orchestrator is attached to an Active session.  Its dispatches are
\* made one after the other (none is made while one is in flight, so the
\* cancellation of an in-flight dispatch is not part of this scenario); each
\* _post_and_poll task posts to the webhook, polls for the reply and injects
\* it.  The calls of the session by that task are the caller Dispatch's.
MaxDispatches == 2

DispatchPrompts == {<<"q">>}

Replies == {<<"r">>}

\* str(e) of the exception an HTTP call raises; Exception() has the empty
\* text.
ErrorTexts == {<<"boom">>, <<"">>}

DISPATCH_TIMEOUT == <<"30.0">>

\* DispatchResult; error <<>> is None.  run: what the dispatch did to the
\* session (the number of turns it appended, the number of reconnect() calls
\* it made) and what ended it; it is no field of the dataclass.
DispatchResult(prompt, response, success, error, run) ==
    [prompt |-> prompt, response |-> response, success |-> success,
     error |-> error, run |-> run]

RunOf(act, cause) ==
    [cause |-> cause, injected |-> act.injected, reconnects |-> act.reconnects]

\* A _post_and_poll that reports the failure of a step it ends with as a
\* success.
FailedResultAsSuccess(act, error, cause) ==
    DispatchResult(act.prompt, <<>>, TRUE, error, RunOf(act, cause))

\* _post_and_poll's result on a path where success was not set.
FailedResult(act, error, cause) ==
    DispatchResult(act.prompt, <<>>, FALSE, error, RunOf(act, cause))

DispatchInit ==
    /\ SeqInit
    /\ history \in {OldHistory(0), OldHistory(2 * MAX_HISTORY_TURNS)}
    /\ current_user_text = <<>>
    /\ current_assistant_text = <<>>
    /\ on_reconnect = "logs"

\* self._dispatches.append(result), the task is done
Recorded(result) ==
    /\ dispatches' = Append(dispatches, result)
    /\ active_dispatch' = [NoDispatch EXCEPT !.pc = "done"]

\* _dispatch_to_airy(prompt)
DispatchToAiry(prompt) ==
    /\ active_dispatch.pc \in {"none", "done"}
    /\ Len(dispatches) < MaxDispatches
    /\ IF ~configured
       THEN /\ dispatches' = Append(dispatches,
                   FailedResult([NoDispatch EXCEPT !.prompt = prompt],
                                <<"Discord config incomplete">>, "unconfigured"))
            /\ UNCHANGED active_dispatch
       ELSE /\ active_dispatch' = [NoDispatch EXCEPT !.pc = "post", !.prompt = prompt]
            /\ UNCHANGED dispatches
    /\ UNCHANGED <<history, SessionRest, SnapshotVars, PromptVars, AudioVars, configured,
                   TagVars, original_calls, cancelled_dispatches>>

\* _post_and_poll up to the webhook post: the message id, None, or an
\* exception of _get_http, _resolve_bot_user_id or _post_webhook.
PostStep ==
    /\ active_dispatch.pc = "post"
    /\ \/ /\ active_dispatch' = [active_dispatch EXCEPT !.pc = "poll"]
          /\ UNCHANGED dispatches
       \/ Recorded(FailedResult(active_dispatch, <<"Webhook post failed">>, "webhook"))
       \/ \E m \in ErrorTexts : Recorded(FailedResult(active_dispatch, m, "exception"))
    /\ UNCHANGED <<history, SessionRest, SnapshotVars, PromptVars, AudioVars, configured,
                   TagVars, original_calls, cancelled_dispatches>>

\* self._dispatches.append(result) after _inject_response: success was set
\* before it, and an exception out of reconnect() leaves its text in error.
InjectedResult(act, out) ==
    DispatchResult(act.prompt, act.response, TRUE,
                   IF out = "exc" THEN <<"boom">>
                   ELSE IF out = "cancelled" THEN <<"Dispatch cancelled">> ELSE <<>>,
                   RunOf(act, "reply"))

\* _poll_for_reply returns the reply (_inject_response follows in the same
\* step, up to the first await of reconnect()), returns None at the
\* timeout, or raises.
PollStep ==
    /\ active_dispatch.pc = "poll"
    /\ \/ /\ CanCall(Dispatch)
          /\ state \in {"active", "reconnecting"} => opens < MaxOpens
          /\ \E r \in Replies : \E io \in IOs :
               LET s1  == InjectResponseWith(Called(Cur, Dispatch), Dispatch, io,
                                             active_dispatch.prompt, r)
                   act == [active_dispatch EXCEPT !.pc = "inject", !.response = r,
                                                  !.injected = 2, !.reconnects = 1]
               IN  /\ CommitSession(s1)
                   /\ IF s1.tasks[Dispatch].pc = "idle"
                      THEN Recorded(InjectedResult(act, s1.tasks[Dispatch].out))
                      ELSE active_dispatch' = act /\ UNCHANGED dispatches
       \/ /\ Recorded(FailedResult(active_dispatch,
                                   <<"No reply within ">> \o DISPATCH_TIMEOUT \o <<"s">>,
                                   "timeout"))
          /\ UNCHANGED <<history, SessionRest>>
       \/ /\ \E m \in ErrorTexts : Recorded(FailedResult(active_dispatch, m, "exception"))
          /\ UNCHANGED <<history, SessionRest>>
    /\ UNCHANGED <<SnapshotVars, PromptVars, AudioVars, configured, TagVars,
                   original_calls, cancelled_dispatches>>

\* The reconnect() of _inject_response has returned and the task has not yet
\* run on.
RecordDue == active_dispatch.pc = "inject" /\ tasks[Dispatch].pc = "idle"

\* _post_and_poll after `await self._inject_response(...)`
RecordStep ==
    /\ RecordDue
    /\ Recorded(InjectedResult(active_dispatch, tasks[Dispatch].out))
    /\ UNCHANGED <<history, SessionRest, SnapshotVars, PromptVars, AudioVars, configured,
                   TagVars, original_calls, cancelled_dispatches>>

\* The application completes the configuration (OrchestratorConfig is a
\* plain dataclass).
Configure ==
    /\ active_dispatch.pc \in {"none", "done"}
    /\ ~configured
    /\ configured' = TRUE
    /\ UNCHANGED <<history, SessionRest, SnapshotVars, PromptVars, AudioVars, TagVars,
                   dispatches, active_dispatch, original_calls, cancelled_dispatches>>

DispatchNext ==
    \/ RecordStep
    \/ ~RecordDue /\ Configure
    \/ ~RecordDue /\ \E p \in DispatchPrompts : DispatchToAiry(p)
    \/ ~RecordDue /\ PostStep
    \/ ~RecordDue /\ PollStep
    \/ ~RecordDue /\ Quiet /\ CallStop(App)
    \/ ~RecordDue /\ \E t \in DOMAIN tasks : OpenStep(t)
    \/ ~RecordDue /\ \E t \in DOMAIN tasks : HandshakeStep(t)
    \/ ~RecordDue /\ \E t \in DOMAIN tasks : WaitStep(t)
    \/ ~RecordDue /\ \E t \in DOMAIN tasks : CloseStep(t)
    \/ ~RecordDue /\ \E t \in DOMAIN tasks : ReaderStart(t)
    \/ ~RecordDue /\ \E t \in DOMAIN tasks : ReaderOutputStep(t)
    \/ ~RecordDue /\ \E t \in DOMAIN tasks : ReaderReceiveStep(t)
    \/ ~RecordDue /\ \E t \in DOMAIN tasks : TimerCancelled(t)

DispatchSpec == DispatchInit /\ [][DispatchNext]_vars

\* ------------------------------------------- dispatches that are cancelled
\* The same session with the orchestrator's owner calling stop() and the
\* tag scanner dispatching again while a dispatch is in flight.  A created
\* task has pc "new" until the loop runs its first step;
\* cancelled_dispatches holds the tasks cancel() was called on and the loop
\* has not run since; active_dispatch.pc = "stopped" when the task
\* self._active_dispatch refers to is one of them.
CancelPrompts == {<<"q">>, <<"p">>}

CancelInit ==
    /\ SeqInit
    /\ history = OldHistory(0)
    /\ current_user_text = <<>>
    /\ current_assistant_text = <<>>
    /\ on_reconnect \in {"logs", "raises"}

\* self._active_dispatch and not self._active_dispatch.done(), the tasks
\* already cancelled aside
InFlight == active_dispatch.pc \in {"new", "post", "poll", "inject"}

\* _dispatch_to_airy(prompt), with or without a dispatch in flight (one
\* inside reconnect() left aside)
CreateDispatch(prompt) ==
    /\ active_dispatch.pc # "inject"
    /\ Len(dispatches) + Len(cancelled_dispatches) < MaxDispatches
    /\ IF ~configured
       THEN /\ dispatches' = Append(dispatches,
                   FailedResult([NoDispatch EXCEPT !.prompt = prompt],
                                <<"Discord config incomplete">>, "unconfigured"))
            /\ UNCHANGED <<active_dispatch, cancelled_dispatches>>
       ELSE /\ cancelled_dispatches' =
                   IF InFlight THEN Append(cancelled_dispatches, active_dispatch)
                   ELSE cancelled_dispatches
            /\ active_dispatch' = [NoDispatch EXCEPT !.pc = "new", !.prompt = prompt]
            /\ UNCHANGED dispatches
    /\ UNCHANGED <<history, SessionRest, SnapshotVars, PromptVars, AudioVars, configured,
                   TagVars, original_calls>>

\* The first step of the task: _post_and_poll up to its first await.
StartStep ==
    /\ active_dispatch.pc = "new"
    /\ active_dispatch' = [active_dispatch EXCEPT !.pc = "post"]
    /\ UNCHANGED <<history, SessionRest, SnapshotVars, PromptVars, AudioVars, configured,
                   TagVars, dispatches, original_calls, cancelled_dispatches>>

\* AiryOrchestrator.stop() with a dispatch in flight outside reconnect();
\* reset() finds the tag scanner idle.
OrchStop ==
    /\ active_dispatch.pc \in {"new", "post", "poll"}
    /\ cancelled_dispatches' = Append(cancelled_dispatches, active_dispatch)
    /\ active_dispatch' = [NoDispatch EXCEPT !.pc = "stopped"]
    /\ UNCHANGED <<history, SessionRest, SnapshotVars, PromptVars, AudioVars, configured,
                   TagVars, dispatches, original_calls>>

\* The loop runs a cancelled task.  CancelledError is thrown into the
\* coroutine where it is suspended, inside the try: except CancelledError
\* sets the error and the result is appended.  Into a coroutine that has not
\* started it is thrown before the first statement: the body never runs.
CancelledStep ==
    /\ cancelled_dispatches # <<>>
    /\ dispatches' =
          IF Head(cancelled_dispatches).pc = "new" THEN dispatches
          ELSE Append(dispatches, FailedResult(Head(cancelled_dispatches),
                                               <<"Dispatch cancelled">>, "cancelled"))
    /\ cancelled_dispatches' = Tail(cancelled_dispatches)
    /\ UNCHANGED <<history, SessionRest, SnapshotVars, PromptVars, AudioVars, configured,
                   TagVars, active_dispatch, original_calls>>

\* A cancelled task is scheduled ahead of every other step of the loop.
LoopFree == ~RecordDue /\ cancelled_dispatches = <<>>

CancelNext ==
    \/ RecordStep
    \/ ~RecordDue /\ CancelledStep
    \/ ~RecordDue /\ Configure
    \/ ~RecordDue /\ \E p \in CancelPrompts : CreateDispatch(p)
    \/ ~RecordDue /\ OrchStop
    \/ ~RecordDue /\ active_dispatch.pc = "inject" /\ CancelCaller(Dispatch)
    \/ LoopFree /\ StartStep
    \/ LoopFree /\ PostStep
    \/ LoopFree /\ PollStep
    \/ LoopFree /\ \E t \in DOMAIN tasks : OpenStep(t)
    \/ LoopFree /\ \E t \in DOMAIN tasks : HandshakeStep(t)
    \/ LoopFree /\ \E t \in DOMAIN tasks : WaitStep(t)
    \/ LoopFree /\ \E t \in DOMAIN tasks : CloseStep(t)
    \/ LoopFree /\ \E t \in DOMAIN tasks : ReaderStart(t)
    \/ LoopFree /\ \E t \in DOMAIN tasks : ReaderOutputStep(t)
    \/ LoopFree /\ \E t \in DOMAIN tasks : ReaderReceiveStep(t)
    \/ LoopFree /\ \E t \in DOMAIN tasks : TimerCancelled(t)

CancelSpec == CancelInit /\ [][CancelNext]_vars

\* ------------------------------------------------- the <airy> tag scanner
\* A text is the sequence of its characters, with each delimiter one
\* element of it.
AIRY_TAG_OPEN == "<airy>"

AIRY_TAG_CLOSE == "</airy>"

\* `tok in text` and text.index(tok)
Has(text, tok) == \E i \in 1..Len(text) : text[i] = tok

IndexOf(text, tok) ==
    CHOOSE i \in 1..Len(text) : text[i] = tok /\ \A j \in 1..(i - 1) : text[j] # tok

\* The orchestrator's fields as one value.
Orch ==
    [configured |-> configured, in_tag |-> in_tag, tag_buffer |-> tag_buffer,
     passthrough |-> passthrough, dispatches |-> dispatches,
     active_dispatch |-> active_dispatch, original |-> original_calls]

CommitOrch(o) ==
    /\ in_tag' = o.in_tag
    /\ tag_buffer' = o.tag_buffer
    /\ passthrough' = o.passthrough
    /\ dispatches' = o.dispatches
    /\ active_dispatch' = o.active_dispatch
    /\ original_calls' = o.original
    /\ UNCHANGED <<configured, cancelled_dispatches>>

\* self._on_text_passthrough(role, text)
PassThrough(o, role, text) == [o EXCEPT !.passthrough = Append(@, <<role, text>>)]

\* if text.strip(): self._on_text_passthrough(role, text)
PassIfText(o, role, text) ==
    IF Strip(text) # <<>> THEN PassThrough(o, role, text) ELSE o

\* _dispatch_to_airy(prompt) as _intercept_text calls it, with no dispatch
\* in flight.
DispatchFrom(o, prompt) ==
    IF ~o.configured
    THEN [o EXCEPT !.dispatches =
             Append(@, FailedResult([NoDispatch EXCEPT !.prompt = prompt],
                                    <<"Discord config incomplete">>, "unconfigured"))]
    ELSE [o EXCEPT !.active_dispatch =
             [NoDispatch EXCEPT !.pc = "post", !.prompt = prompt]]

\* if prompt: self._dispatch_to_airy(prompt)
DispatchIfText(o, prompt) == IF prompt # <<>> THEN DispatchFrom(o, prompt) ELSE o

\* A scanner that keeps only the chunk at hand of an open tag
\* (self._tag_buffer = text).
AccumulateLast(buffer, text) == text

\* self._tag_buffer += text
Accumulate(buffer, text) == buffer \o text

\* self._original_on_text(role, text)
OriginalOnText(o, role, text) == [o EXCEPT !.original = Append(@, <<role, text>>)]

\* _intercept_text(role, text), with both callbacks installed.  The regex
\* of the last branch finds no tag in a text without AIRY_TAG_OPEN.
InterceptText(o, role, text) ==
    IF role = "user" THEN OriginalOnText(PassThrough(o, role, text), role, text)
    ELSE IF o.in_tag
    THEN IF Has(text, AIRY_TAG_CLOSE)
         THEN LET close_idx == IndexOf(text, AIRY_TAG_CLOSE)
                  buffer    == Accumulate(o.tag_buffer, SubSeq(text, 1, close_idx - 1))
                  remaining == SubSeq(text, close_idx + 1, Len(text))
                  o1 == [o EXCEPT !.in_tag = FALSE, !.tag_buffer = <<>>]
              IN  PassIfText(DispatchIfText(o1, Strip(buffer)), role, remaining)
         ELSE [o EXCEPT !.tag_buffer = Accumulate(@, text)]
    ELSE IF Has(text, AIRY_TAG_OPEN)
    THEN LET open_idx == IndexOf(text, AIRY_TAG_OPEN)
             o1    == PassIfText(o, role, SubSeq(text, 1, open_idx - 1))
             after == SubSeq(text, open_idx + 1, Len(text))
         IN  IF Has(after, AIRY_TAG_CLOSE)
             THEN LET close_idx == IndexOf(after, AIRY_TAG_CLOSE)
                      remaining == SubSeq(after, close_idx + 1, Len(after))
                  IN  PassIfText(DispatchIfText(o1, Strip(SubSeq(after, 1, close_idx - 1))),
                                 role, remaining)
             ELSE [o1 EXCEPT !.in_tag = TRUE, !.tag_buffer = after]
    ELSE PassThrough(o, role, text)

\* The assistant texts: one tag, with text before and after it or not.
TagContents ==
    {<<>>, <<" ">>, <<"a">>, <<" ", "a">>, <<"a", " ", "b">>, <<" ", "a", " ">>}

TagTexts ==
    {b \o <<AIRY_TAG_OPEN>> \o c \o <<AIRY_TAG_CLOSE>> \o a :
        b \in {<<>>, <<"h">>, <<" ">>}, c \in TagContents, a \in {<<>>, <<"t">>}}

\* A text and the places it is cut at into the chunks of the callback.
TagStreams ==
    UNION {{[text |-> txt, cuts |-> cs, at |-> 1, users |-> 0] :
               cs \in SUBSET (1..(Len(txt) - 1))} : txt \in TagTexts}

MaxUserTexts == 1

TagInit ==
    /\ Constructed
    /\ history = <<>>
    /\ SnapshotIdle
    /\ PromptIdle
    /\ AudioIdle
    /\ configured = FALSE
    /\ in_tag = FALSE
    /\ tag_buffer = <<>>
    /\ passthrough = <<>>
    /\ dispatches = <<>>
    /\ active_dispatch = NoDispatch
    /\ original_calls = <<>>
    /\ cancelled_dispatches = <<>>
    /\ tag_stream \in TagStreams

\* The last element of the chunk that starts at tag_stream.at.
ChunkEnd ==
    LET ends == {c \in tag_stream.cuts : c >= tag_stream.at} \cup {Len(tag_stream.text)}
    IN  CHOOSE c \in ends : \A d \in ends : c <= d

\* The session's on_text callback hands the next chunk of assistant text.
InterceptAssistant ==
    /\ tag_stream.at <= Len(tag_stream.text)
    /\ CommitOrch(InterceptText(Orch, "assistant",
                                SubSeq(tag_stream.text, tag_stream.at, ChunkEnd)))
    /\ tag_stream' = [tag_stream EXCEPT !.at = ChunkEnd + 1]
    /\ UNCHANGED <<history, SessionRest, SnapshotVars, PromptVars, AudioVars>>

\* ... or a user text, between two chunks.
InterceptUser ==
    /\ tag_stream.users < MaxUserTexts
    /\ CommitOrch(InterceptText(Orch, "user", <<"u">>))
    /\ tag_stream' = [tag_stream EXCEPT !.users = @ + 1]
    /\ UNCHANGED <<history, SessionRest, SnapshotVars, PromptVars, AudioVars>>

TagNext == InterceptAssistant \/ InterceptUser

TagSpec == TagInit /\ [][TagNext]_vars

\* ----------------------------------------------- two tags in one response
\* The assistant texts with two tags, the second right after the first or
\* after a word, cut into chunks at any places.
TwoTagTexts ==
    {b \o <<AIRY_TAG_OPEN>> \o c \o <<AIRY_TAG_CLOSE>> \o m \o
          <<AIRY_TAG_OPEN, "b", AIRY_TAG_CLOSE>> \o a :
        b \in {<<>>, <<"h">>}, c \in {<<"a">>, <<" ">>},
        m \in {<<>>, <<"m">>}, a \in {<<>>, <<"t">>}}

TwoTagStreams ==
    UNION {{[text |-> txt, cuts |-> cs, at |-> 1, users |-> 0] :
               cs \in SUBSET (1..(Len(txt) - 1))} : txt \in TwoTagTexts}

TwoTagInit ==
    /\ Constructed
    /\ history = <<>>
    /\ SnapshotIdle
    /\ PromptIdle
    /\ AudioIdle
    /\ configured = FALSE
    /\ in_tag = FALSE
    /\ tag_buffer = <<>>
    /\ passthrough = <<>>
    /\ dispatches = <<>>
    /\ active_dispatch = NoDispatch
    /\ original_calls = <<>>
    /\ cancelled_dispatches = <<>>
    /\ tag_stream \in TwoTagStreams

TwoTagSpec == TwoTagInit /\ [][TagNext]_vars

\* ------------------------------------------------- audio format conversion
\* Python's float is the IEEE 754 binary64: 53 significant bits, each
\* operation rounded to the nearest value, ties to the even one.  A natural
\* number of any size is the sequence of its digits in base LimbBase, the
\* lowest first and the highest not 0.  A float is sign, significand m and
\* exponent e with value m * 2^e, m below 2^53 (or 2^53 itself); the values of
\* the resampler stay far from the ends of the exponent range.
LimbBits == 15

LimbBase == 32768

Precision == 53

RECURSIVE Pow2(_)
Pow2(k) == IF k = 0 THEN 1 ELSE 2 * Pow2(k - 1)

RECURSIVE BigNorm(_)
BigNorm(a) ==
    IF a = <<>> THEN <<>>
    ELSE IF a[Len(a)] = 0 THEN BigNorm(SubSeq(a, 1, Len(a) - 1)) ELSE a

RECURSIVE BigFromInt(_)
BigFromInt(n) ==
    IF n = 0 THEN <<>> ELSE <<n % LimbBase>> \o BigFromInt(n \div LimbBase)

RECURSIVE BigToInt(_)
BigToInt(a) == IF a = <<>> THEN 0 ELSE a[1] + LimbBase * BigToInt(Tail(a))

Limb(a, i) == IF i <= Len(a) THEN a[i] ELSE 0

RECURSIVE BigAddC(_, _, _)
BigAddC(a, b, c) ==
    IF a = <<>> /\ b = <<>> THEN (IF c = 0 THEN <<>> ELSE <<c>>)
    ELSE LET x == Limb(a, 1) + Limb(b, 1) + c
         IN  <<x % LimbBase>> \o
             BigAddC(IF a = <<>> THEN a ELSE Tail(a), IF b = <<>> THEN b ELSE Tail(b),
                     x \div LimbBase)

BigAdd(a, b) == BigAddC(a, b, 0)

\* a - b - c for a >= b + c, digit by digit with the borrow c
RECURSIVE BigSubC(_, _, _)
BigSubC(a, b, c) ==
    IF a = <<>> THEN <<>>
    ELSE LET x == a[1] - Limb(b, 1) - c
         IN  <<IF x < 0 THEN x + LimbBase ELSE x>> \o
             BigSubC(Tail(a), IF b = <<>> THEN b ELSE Tail(b), IF x < 0 THEN 1 ELSE 0)

BigSub(a, b) == BigNorm(BigSubC(a, b, 0))

\* -1, 0 or 1 as a is below, equal to or above b
RECURSIVE BigCmp(_, _)
BigCmp(a, b) ==
    IF Len(a) # Len(b) THEN (IF Len(a) < Len(b) THEN -1 ELSE 1)
    ELSE IF a = <<>> THEN 0
    ELSE IF a[Len(a)] # b[Len(b)] THEN (IF a[Len(a)] < b[Len(b)] THEN -1 ELSE 1)
    ELSE BigCmp(BigNorm(SubSeq(a, 1, Len(a) - 1)), BigNorm(SubSeq(b, 1, Len(b) - 1)))

\* a * k + c for a digit k
RECURSIVE BigMulSmall(_, _, _)
BigMulSmall(a, k, c) ==
    IF a = <<>> THEN (IF c = 0 THEN <<>> ELSE <<c>>)
    ELSE LET x == a[1] * k + c
         IN  <<x % LimbBase>> \o BigMulSmall(Tail(a), k, x \div LimbBase)

RECURSIVE BigMul(_, _)
BigMul(a, b) ==
    IF a = <<>> \/ b = <<>> THEN <<>>
    ELSE BigAdd(BigMulSmall(a, b[1], 0),
                LET hi == BigMul(a, Tail(b)) IN IF hi = <<>> THEN <<>> ELSE <<0>> \o hi)

\* a * 2^k
BigShl(a, k) ==
    IF a = <<>> THEN <<>>
    ELSE [i \in 1..(k \div LimbBits) |-> 0] \o BigMulSmall(a, Pow2(k % LimbBits), 0)

\* a div k for a digit k, from the highest digit down, r the remainder so far
RECURSIVE BigDivSmall(_, _, _)
BigDivSmall(a, k, r) ==
    IF a = <<>> THEN <<>>
    ELSE LET x == r * LimbBase + a[Len(a)]
         IN  BigDivSmall(SubSeq(a, 1, Len(a) - 1), k, x % k) \o <<x \div k>>

\* a div 2^k
BigShr(a, k) ==
    IF k \div LimbBits >= Len(a) THEN <<>>
    ELSE BigNorm(BigDivSmall(SubSeq(a, k \div LimbBits + 1, Len(a)),
                             Pow2(k % LimbBits), 0))

RECURSIVE BitLen(_)
BitLen(n) == IF n = 0 THEN 0 ELSE 1 + BitLen(n \div 2)

\* The number of binary digits of a.
BigBits(a) == IF a = <<>> THEN 0 ELSE LimbBits * (Len(a) - 1) + BitLen(a[Len(a)])

\* The binary digit of a with weight 2^i.
BigBit(a, i) == (Limb(a, i \div LimbBits + 1) \div Pow2(i % LimbBits)) % 2

\* Long division in base 2: st.i digits of a are still to be brought down,
\* st.q and st.r are the quotient and the remainder of the digits above them.
\* BigDivBits brings down the digits of weight 2^lo and more.
RECURSIVE BigDivBits(_, _, _, _)
BigDivBits(a, b, st, lo) ==
    IF st.i = lo THEN st
    ELSE LET r2 == BigMulSmall(st.r, 2, BigBit(a, st.i - 1))
             ge == BigCmp(r2, b) >= 0
         IN  BigDivBits(a, b, [i |-> st.i - 1,
                               q |-> BigMulSmall(st.q, 2, IF ge THEN 1 ELSE 0),
                               r |-> IF ge THEN BigSub(r2, b) ELSE r2], lo)

\* LimbBits digits at a time.
RECURSIVE BigDivStep(_, _, _)
BigDivStep(a, b, st) ==
    IF st.i = 0 THEN st
    ELSE BigDivStep(a, b, BigDivBits(a, b, st,
                                     IF st.i > LimbBits THEN st.i - LimbBits ELSE 0))

BigDivMod(a, b) == BigDivStep(a, b, [i |-> BigBits(a), q |-> <<>>, r |-> <<>>])

Float(neg, m, e) == [neg |-> neg, m |-> m, e |-> e]

\* The binary64 nearest to m * 2^e, or to a little more when inexact (the
\* caller then gives 54 digits or more): ties go to the even significand.
RoundNearestEven(neg, m, e, inexact) ==
    LET drop == BigBits(m) - Precision
    IN  IF drop <= 0 THEN Float(neg, m, e)
        ELSE LET q    == BigShr(m, drop)
                 half == BigBit(m, drop - 1) = 1
                 rest == inexact \/ BigCmp(BigShl(BigShr(m, drop - 1), drop - 1), m) # 0
                 odd  == BigBit(q, 0) = 1
             IN  Float(neg, IF half /\ (rest \/ odd) THEN BigAdd(q, <<1>>) ELSE q,
                       e + drop)

\* float(i) of an int below 2^31
FloatOf(i) == Float(i < 0, BigFromInt(IF i < 0 THEN -i ELSE i), 0)

FMul(a, b) == RoundNearestEven(a.neg # b.neg, BigMul(a.m, b.m), a.e + b.e, FALSE)

FDiv(a, b) ==
    IF a.m = <<>> THEN Float(a.neg # b.neg, <<>>, 0)
    ELSE LET k0 == Precision + 3 + BigBits(b.m) - BigBits(a.m)
             k  == IF k0 < 0 THEN 0 ELSE k0
             d  == BigDivMod(BigShl(a.m, k), b.m)
         IN  RoundNearestEven(a.neg # b.neg, d.q, a.e - b.e - k, d.r # <<>>)

FAdd(a, b) ==
    LET e  == IF a.e < b.e THEN a.e ELSE b.e
        ma == BigShl(a.m, a.e - e)
        mb == BigShl(b.m, b.e - e)
    IN  IF a.neg = b.neg THEN RoundNearestEven(a.neg, BigAdd(ma, mb), e, FALSE)
        ELSE IF BigCmp(ma, mb) >= 0 THEN RoundNearestEven(a.neg, BigSub(ma, mb), e, FALSE)
        ELSE RoundNearestEven(b.neg, BigSub(mb, ma), e, FALSE)

FSub(a, b) == FAdd(a, Float(~b.neg, b.m, b.e))

\* int(x): the integer part, toward zero
IntOf(a) ==
    LET mag == BigToInt(IF a.e >= 0 THEN BigShl(a.m, a.e) ELSE BigShr(a.m, -a.e))
    IN  IF a.neg THEN -mag ELSE mag

\* 16-bit signed little-endian PCM: struct.unpack("<{n}h", data) of exactly
\* 2n bytes, struct.pack("<{n}h", *samples).
Int16(lo, hi) ==
    LET u == lo + 256 * hi IN IF u >= 32768 THEN u - 65536 ELSE u

Unpack(data) == [i \in 1..(Len(data) \div 2) |-> Int16(data[2 * i - 1], data[2 * i])]

Pack(samples) ==
    [j \in 1..(2 * Len(samples)) |->
        LET v == samples[(j + 1) \div 2]
            u == IF v < 0 THEN v + 65536 ELSE v
        IN  IF j % 2 = 1 THEN u % 256 ELSE u \div 256]

\* What a conversion gives: the bytes it returns, or the exception it
\* raises.
Returns(data) == [raised |-> "none", data |-> data]

RaisesError(name) == [raised |-> name, data |-> <<>>]

\* An average that rounds toward zero.
TruncHalf(a) == IF a >= 0 THEN a \div 2 ELSE -((-a) \div 2)

\* a // 2
FloorHalf(a) == IF a >= 0 THEN a \div 2 ELSE -((1 - a) \div 2)

\* stereo_to_mono(pcm_data)
StereoToMono(pcm_data) ==
    LET trimmed == SubSeq(pcm_data, 1, Len(pcm_data) - (Len(pcm_data) % 4))
        stereo  == Unpack(trimmed)
    IN  IF trimmed = <<>> THEN Returns(<<>>)
        ELSE Returns(Pack([i \in 1..(Len(stereo) \div 2) |->
                              FloorHalf(stereo[2 * i - 1] + stereo[2 * i])]))

\* A mono_to_stereo that leaves the right channel silent.
MonoToStereoLeftOnly(pcm_data) ==
    LET samples == Unpack(pcm_data)
    IN  IF pcm_data = <<>> THEN Returns(<<>>)
        ELSE IF Len(pcm_data) % 2 # 0 THEN RaisesError("struct.error")
        ELSE Returns(Pack([i \in 1..(2 * Len(samples)) |->
                              IF i % 2 = 1 THEN samples[(i + 1) \div 2] ELSE 0]))

\* mono_to_stereo(pcm_data)
MonoToStereo(pcm_data) ==
    LET samples == Unpack(pcm_data)
    IN  IF pcm_data = <<>> THEN Returns(<<>>)
        ELSE IF Len(pcm_data) % 2 # 0 THEN RaisesError("struct.error")
        ELSE Returns(Pack([i \in 1..(2 * Len(samples)) |-> samples[(i + 1) \div 2]]))

\* max(-32768, min(32767, v))
Clamp(v) == IF v > 32767 THEN 32767 ELSE IF v < -32768 THEN -32768 ELSE v

\* The position in the source of output sample i (from 0): idx and frac.
SourcePosition(ratio, i) ==
    LET src_pos == FMul(FloatOf(i), ratio)
        idx     == IntOf(src_pos)
    IN  [idx |-> idx, frac |-> FSub(src_pos, FloatOf(idx))]

\* One pass of the loop: output sample i (from 0) of samples (from 1).
OutputSample(samples, ratio, i) ==
    LET at   == SourcePosition(ratio, i)
        val  == IF at.idx + 1 < Len(samples)
                THEN FAdd(FMul(FloatOf(samples[at.idx + 1]), FSub(FloatOf(1), at.frac)),
                          FMul(FloatOf(samples[at.idx + 2]), at.frac))
                ELSE FloatOf(samples[at.idx + 1])
    IN  Clamp(IntOf(val))

\* out_len = int(n_samples / ratio)
OutLen(n_samples, ratio) == IntOf(FDiv(FloatOf(n_samples), ratio))

\* The body downsample_linear and upsample_linear share.
ResampleLinear(pcm_data, src_rate, dst_rate) ==
    LET samples == Unpack(pcm_data)
        ratio   == FDiv(FloatOf(src_rate), FloatOf(dst_rate))
        out_len == OutLen(Len(samples), ratio)
    IN  IF src_rate = dst_rate THEN Returns(pcm_data)
        ELSE IF pcm_data = <<>> THEN Returns(<<>>)
        ELSE IF Len(pcm_data) % 2 # 0 THEN RaisesError("struct.error")
        ELSE IF out_len = 0 THEN Returns(<<>>)
        ELSE IF \E i \in 0..(out_len - 1) : SourcePosition(ratio, i).idx >= Len(samples)
        THEN RaisesError("IndexError")
        ELSE Returns(Pack([i \in 1..out_len |-> OutputSample(samples, ratio, i - 1)]))

DownsampleLinear(pcm_data, src_rate, dst_rate) ==
    ResampleLinear(pcm_data, src_rate, dst_rate)

UpsampleLinear(pcm_data, src_rate, dst_rate) ==
    ResampleLinear(pcm_data, src_rate, dst_rate)

\* The sample sequences, as PCM bytes, alone and followed by a lone byte.
SampleSeqs ==
    {<<>>, <<0, 1000>>, <<0, 1>>, <<-1, 0>>, <<0, 1000, 2000>>, <<0, 1000, 2000, 3000>>,
     <<32767, -32768>>, <<-32768, 32767>>, <<-3, 2, -32768>>,
     <<100, 200, 300, 400, 500, 600, 700, 800, 900>>,
     <<-5, 5, -5, 5, 32767, 5, -5, 5, -5>>}

PcmInputs == {Pack(x) : x \in SampleSeqs} \cup {Pack(x) \o <<7>> : x \in SampleSeqs}

RatePairs ==
    {<<48000, 16000>>, <<24000, 48000>>, <<16000, 16000>>, <<9, 7>>, <<1, 2>>,
     <<2, 1>>, <<1, 3>>, <<3, 1>>}

MaxConversions == 2

ConvertInit ==
    /\ Constructed
    /\ history = <<>>
    /\ SnapshotIdle
    /\ PromptIdle
    /\ OrchIdle
    /\ audio_in \in {[data |-> d, src_rate |-> r[1], dst_rate |-> r[2]] :
                        d \in PcmInputs, r \in RatePairs}
    /\ audio_out = NoConversion

\* The bytes at hand: the input, or what the last conversion returned.
AtHand == IF audio_out.ops = <<>> THEN audio_in.data ELSE audio_out.data

\* One more conversion may be called on the bytes at hand.
CanConvert == Len(audio_out.ops) < MaxConversions /\ audio_out.raised = "none"

\* The conversion op, called on the bytes at hand, gave res.
Converted(op, res) ==
    [ops |-> Append(audio_out.ops, op), arg |-> AtHand, raised |-> res.raised,
     data |-> res.data, chunks |-> <<>>, size |-> 0]

CallStereoToMono ==
    /\ CanConvert
    /\ audio_out' = Converted("stereo_to_mono", StereoToMono(AtHand))
    /\ UNCHANGED <<history, SessionRest, SnapshotVars, PromptVars, OrchVars, audio_in>>

CallMonoToStereo ==
    /\ CanConvert
    /\ audio_out' = Converted("mono_to_stereo", MonoToStereo(AtHand))
    /\ UNCHANGED <<history, SessionRest, SnapshotVars, PromptVars, OrchVars, audio_in>>

CallDownsample ==
    /\ CanConvert
    /\ audio_out' = Converted("downsample_linear",
                              DownsampleLinear(AtHand, audio_in.src_rate,
                                               audio_in.dst_rate))
    /\ UNCHANGED <<history, SessionRest, SnapshotVars, PromptVars, OrchVars, audio_in>>

CallUpsample ==
    /\ CanConvert
    /\ audio_out' = Converted("upsample_linear",
                              UpsampleLinear(AtHand, audio_in.src_rate,
                                             audio_in.dst_rate))
    /\ UNCHANGED <<history, SessionRest, SnapshotVars, PromptVars, OrchVars, audio_in>>

\* A chunk_audio whose last slice is dropped when it is short.
ChunkAudioWholeOnly(pcm_data, chunk_size_bytes) ==
    [k \in 1..(Len(pcm_data) \div chunk_size_bytes) |->
        SubSeq(pcm_data, (k - 1) * chunk_size_bytes + 1, k * chunk_size_bytes)]

\* list(chunk_audio(pcm_data, chunk_size_bytes)): one slice
\* pcm_data[offset:offset + chunk_size_bytes] per offset of
\* range(0, len(pcm_data), chunk_size_bytes), a slice ending with the data.
ChunkAudio(pcm_data, chunk_size_bytes) ==
    LET offsets == {o \in 0..(Len(pcm_data) - 1) : o % chunk_size_bytes = 0}
    IN  [k \in 1..Cardinality(offsets) |->
            LET offset == (k - 1) * chunk_size_bytes
                stop   == IF offset + chunk_size_bytes > Len(pcm_data)
                          THEN Len(pcm_data) ELSE offset + chunk_size_bytes
            IN  SubSeq(pcm_data, offset + 1, stop)]

ChunkSizes == {1, 2, 3, 4, 7, 32}

\* The bytes at hand are split for streaming; they stay at hand.
CallChunkAudio ==
    /\ CanConvert
    /\ \E n \in ChunkSizes :
          audio_out' = [Converted("chunk_audio", Returns(AtHand)) EXCEPT
                           !.chunks = ChunkAudio(AtHand, n), !.size = n]
    /\ UNCHANGED <<history, SessionRest, SnapshotVars, PromptVars, OrchVars, audio_in>>

ConvertNext ==
    \/ CallStereoToMono
    \/ CallMonoToStereo
    \/ CallDownsample
    \/ CallUpsample
    \/ CallChunkAudio

ConvertSpec == ConvertInit /\ [][ConvertNext]_vars

\* ------------------------------------------------- the history property
\* A session with two turns in its history and a caller who reads the
\* history property and then changes what it was given: appends a turn of
\* its own, removes an entry, assigns the text of an entry.  Turns are
\* objects here; history is what the session's list shows, read through
\* them.
MaxMutations == 3

TurnTexts == {<<"a">>, <<"b">>}

TurnValues == {[role |-> r, text |-> x] : r \in {"user", "assistant"}, x \in TurnTexts}

\* The turns a list of identities stands for.
Deref(refs, objs) == [i \in 1..Len(refs) |-> objs[refs[i]]]

\* return list(self._history): a new list of the same objects.
HistoryProperty(refs, objs) == [objs |-> objs, refs |-> refs]

SnapshotInit ==
    /\ Constructed
    /\ turn_objects \in [1..2 -> TurnValues]
    /\ history_refs = <<1, 2>>
    /\ history = Deref(history_refs, turn_objects)
    /\ snapshot = [held |-> FALSE, refs |-> <<>>, n |-> 0]
    /\ PromptIdle
    /\ OrchIdle
    /\ AudioIdle

\* What every step of the caller leaves alone, and what the session's list
\* shows after it.
CallerStep ==
    /\ history_refs' = history_refs
    /\ history' = Deref(history_refs', turn_objects')
    /\ UNCHANGED <<SessionRest, PromptVars, OrchVars, AudioVars>>

\* h = session.history
TakeSnapshot ==
    /\ snapshot.n < MaxMutations
    /\ LET got == HistoryProperty(history_refs, turn_objects)
       IN  /\ turn_objects' = got.objs
           /\ snapshot' = [snapshot EXCEPT !.held = TRUE, !.refs = got.refs]
    /\ CallerStep

\* h.append(ConversationTurn(...))
SnapshotAppend ==
    /\ snapshot.held /\ snapshot.n < MaxMutations
    /\ \E v \in TurnValues :
          /\ turn_objects' = Append(turn_objects, v)
          /\ snapshot' = [snapshot EXCEPT !.refs = Append(@, Len(turn_objects) + 1),
                                          !.n = @ + 1]
    /\ CallerStep

\* del h[i]
SnapshotRemove ==
    /\ snapshot.held /\ snapshot.n < MaxMutations
    /\ \E i \in DOMAIN snapshot.refs :
          snapshot' = [snapshot EXCEPT
                          !.refs = SubSeq(@, 1, i - 1) \o SubSeq(@, i + 1, Len(@)),
                          !.n = @ + 1]
    /\ turn_objects' = turn_objects
    /\ CallerStep

\* h[i].text = x
SnapshotSetText ==
    /\ snapshot.held /\ snapshot.n < MaxMutations
    /\ \E i \in DOMAIN snapshot.refs : \E x \in TurnTexts :
          turn_objects' = [turn_objects EXCEPT ![snapshot.refs[i]].text = x]
    /\ snapshot' = [snapshot EXCEPT !.n = @ + 1]
    /\ CallerStep

SnapshotNext ==
    \/ TakeSnapshot
    \/ SnapshotAppend
    \/ SnapshotRemove
    \/ SnapshotSetText

SnapshotSpec == SnapshotInit /\ [][SnapshotNext]_vars

\* --------------------------------------------- _build_continuation_prompt
\* The prompt as text: a sequence of pieces in the order they are written.
\* The inputs are drawn by PromptInit: a base prompt, and a history of up to
\* 2 x MAX_HISTORY_TURNS turns, each with its own text, the roles
\* alternating from either side, the timestamps from either of two clocks.
Letters ==
    <<"a", "b", "c", "d", "e", "f", "g", "h", "i", "j",
      "k", "l", "m", "n", "o", "p", "q", "r", "s", "t">>

StampedHistory(n, first, clock) ==
    [i \in 1..n |->
        [role |-> IF (i % 2 = 1) = (first = "user") THEN "user" ELSE "assistant",
         text |-> <<Letters[i]>>,
         timestamp |-> clock + i]]

PromptLengths ==
    {0, 1, 2, MAX_HISTORY_TURNS - 1, MAX_HISTORY_TURNS, MAX_HISTORY_TURNS + 1,
     2 * MAX_HISTORY_TURNS - 1, 2 * MAX_HISTORY_TURNS}

BasePrompts == {<<>>, <<"You are a friendly assistant.">>, <<"Be brief.", "\n">>}

\* The turns that go into the prompt when all of them do.
RecentTurnsAll(hist) == hist

\* recent = self._history[-MAX_HISTORY_TURNS:]
RecentTurns(hist) == Last(hist, MAX_HISTORY_TURNS)

\* f"{label}: {turn.text}"
HistoryLine(turn) ==
    <<IF turn.role = "user" THEN "User" ELSE "Assistant", ": ">> \o turn.text

\* "\n".join(history_lines)
RECURSIVE JoinLines(_)
JoinLines(lines) ==
    IF lines = <<>> THEN <<>>
    ELSE IF Len(lines) = 1 THEN lines[1]
    ELSE lines[1] \o <<"\n">> \o JoinLines(Tail(lines))

ContinuationPrompt(base, hist) ==
    IF hist = <<>> THEN base
    ELSE LET recent == RecentTurns(hist)
         IN  base \o <<"\n\n">> \o
             <<"[Session continuation] The conversation so far:\n">> \o
             JoinLines([i \in 1..Len(recent) |-> HistoryLine(recent[i])]) \o
             <<"\n\n">> \o
             <<"Continue the conversation naturally from where it left off. ">> \o
             <<"Do not repeat previous responses or acknowledge the reconnection.">>

PromptInit ==
    /\ Constructed
    /\ SnapshotIdle
    /\ OrchIdle
    /\ AudioIdle
    /\ system_prompt \in BasePrompts
    /\ prompt_built = [built |-> FALSE, text |-> <<>>]
    /\ history \in {StampedHistory(n, first, clock) :
                       n \in PromptLengths, first \in {"user", "assistant"},
                       clock \in {0, 1000}}

\* self._build_continuation_prompt()
BuildPrompt ==
    /\ prompt_built' = [built |-> TRUE,
                        text |-> ContinuationPrompt(system_prompt, history)]
    /\ UNCHANGED <<history, SessionRest, SnapshotVars, OrchVars, AudioVars,
                   system_prompt>>

PromptNext == BuildPrompt

PromptSpec == PromptInit /\ [][PromptNext]_vars

\* ------------------------------------------------- one reader, many messages
\* The reader of an Active session and the messages the service may send it:
\* every kind of contentStart, text fragments with and without whitespace,
\* audio, messages that lack their content, turn ends, a message without
\* bytes and an event the reader has no branch for.  Nothing else runs; the
\* messages handed to the reader are kept, in order, in inbound.
MaxInbound == 5

ServiceEvents ==
    {Event("contentStart", "USER", FALSE, <<>>, TRUE),
     Event("contentStart", "ASSISTANT", TRUE, <<>>, TRUE),
     Event("contentStart", "ASSISTANT", FALSE, <<>>, TRUE),
     Event("contentStart", "SYSTEM", FALSE, <<>>, TRUE),
     Event("textOutput", "-", FALSE, <<"x">>, TRUE),
     Event("textOutput", "-", FALSE, <<" ">>, TRUE),
     Event("textOutput", "-", FALSE, <<>>, FALSE),
     Event("audioOutput", "-", FALSE, <<"Q", "Q", "=", "=">>, TRUE),
     Event("audioOutput", "-", FALSE, <<>>, FALSE),
     Event("completionEnd", "-", FALSE, <<>>, TRUE),
     Event("contentEnd", "-", FALSE, <<>>, TRUE),
     Event("empty", "-", FALSE, <<>>, TRUE)}

ReaderInit ==
    /\ state = "active"
    /\ client = TRUE
    /\ stream = 1
    /\ prompt_name = 1
    /\ system_content_name = 2
    /\ audio_content_name = 3
    /\ history \in {OldHistory(n) : n \in {0, 2 * MAX_HISTORY_TURNS - 1}}
    /\ current_user_text \in {<<>>, <<" ">>}
    /\ current_assistant_text = <<>>
    /\ response_task = 3
    /\ session_timer_task = 4
    /\ should_reconnect = FALSE
    /\ metrics = [events_received |-> 0, audio_chunks_sent |-> 0,
                  audio_chunks_received |-> 0, turns_completed |-> 0,
                  reconnections |-> 0]
    /\ tasks = <<NewTask("caller", "none", "idle"), NewTask("caller", "none", "idle"),
                 [NewTask("reader", "reader", "await_output") EXCEPT !.rs = 1],
                 NewTask("timer", "timer", "sleep")>>
    /\ streams = <<SetUpStream(<<1, 2, 3>>)>>
    /\ uuid = 3
    /\ calls = [t \in Callers |-> 0]
    /\ opens = 1
    /\ faults = MaxFaults
    /\ stopped = FALSE
    /\ on_reconnect = "logs"
    /\ text_calls = <<>>
    /\ inbound = <<>>
    /\ audio_output_queue = <<>>
    /\ played = <<>>
    /\ AsideIdle

\* output = await self._stream.await_output() returns
ReaderAwaits(t) ==
    /\ tasks[t].pc = "await_output"
    /\ Len(inbound) < MaxInbound
    /\ Commit(ReaderOutput(Cur, t, "ok"))

\* result = await output[1].receive() returns message e, and the reader runs
\* up to its next await.
ReaderDelivers(t) ==
    /\ tasks[t].pc = "receive"
    /\ \E e \in ServiceEvents :
          Commit([ReaderReceive(Cur, t, "ok", e) EXCEPT !.inbound = Append(inbound, e)])

ReaderNext ==
    \/ \E t \in DOMAIN tasks : ReaderAwaits(t)
    \/ \E t \in DOMAIN tasks : ReaderDelivers(t)

ReaderSpec == ReaderInit /\ [][ReaderNext]_vars

\* ------------------------------------------------------------------ claims
Readers == {t \in DOMAIN tasks : tasks[t].kind = "reader" /\ ~Done(tasks[t])}
Timers  == {t \in DOMAIN tasks : tasks[t].kind = "timer" /\ ~Done(tasks[t])}
OpenStreams == {i \in DOMAIN streams : streams[i].open}

\* The edges of the life cycle diagram.
Edges ==
    {<<"idle", "connecting">>, <<"connecting", "active">>,
     <<"active", "reconnecting">>, <<"reconnecting", "active">>,
     <<"connecting", "closing">>, <<"active", "closing">>,
     <<"reconnecting", "closing">>, <<"closing", "closed">>,
     <<"closed", "connecting">>}

\* C1: every change of the session state follows an edge of the life cycle
\* diagram; in particular Closed changes only to Connecting.
C1_StateFollowsEdges ==
    [][state' # state => <<state, state'>> \in Edges]_vars

\* C2: a reconnect never leaves the session parked in Reconnecting: while the
\* state is Reconnecting some task is inside reconnect() to take it on.
C2_NeverParked ==
    state = "reconnecting" => \E t \in DOMAIN tasks : tasks[t].fn = "reconnect"

\* C3: at every moment at most one of the streams that were opened is open.
C3_OneOpenStream == Cardinality(OpenStreams) <= 1

\* C4: the messages a stream has received begin with the six setup events in
\* their order, and every audioInput came after the audio contentStart and
\* before its contentEnd.
C4_HandshakeOrder ==
    \A i \in DOMAIN streams : streams[i].prefix_ok /\ streams[i].audio_ok

\* C5: the identifiers of different stream opens are disjoint, and every
\* message a stream has received carried only the identifiers drawn by the
\* open of that stream.
C5_OwnIdentifiers ==
    /\ \A i, j \in DOMAIN streams :
          i # j => \A a, b \in 1..3 : streams[i].own[a] # streams[j].own[b]
    /\ \A i \in DOMAIN streams : streams[i].ids_ok

\* C6: at most one response reader and at most one watchdog are alive.
C6_OneReaderOneWatchdog == Cardinality(Readers) <= 1 /\ Cardinality(Timers) <= 1

\* Task t of a reconnect() is inside _open_stream: the identifiers have been
\* overwritten (and, past "open", the stream handle).
InNewSegment(t) ==
    tasks[t].fn = "reconnect" /\ tasks[t].pc \in {"open"} \cup HsPcs

Gone(x) == x = 0 \/ Done(tasks[x])

C8_NoTasksAfterStop == stopped => Readers = {} /\ Timers = {}

CloseOrder == <<"contentEnd", "promptEnd", "sessionEnd", "close">>
IsPrefix(a, b) == Len(a) <= Len(b) /\ a = SubSeq(b, 1, Len(a))

\* A task inside stop() has sent its close messages in the order of the
\* close sequence, and it cannot be held up: it is at an await of the
\* transport, or it awaits a reader that has ended or is ending.
StopProgresses ==
    \A t \in DOMAIN tasks :
        tasks[t].fn = "stop" =>
            /\ IsPrefix(tasks[t].trail, CloseOrder)
            /\ ~tasks[t].must_cancel
            /\ tasks[t].pc \in ClPcs \cup {"cl0", "wait"}
            /\ tasks[t].pc = "wait" =>
                   \/ Done(tasks[tasks[t].wf])
                   \/ tasks[tasks[t].wf].must_cancel

\* A step in which stop() returns leaves the state Closed and raises nothing.
StopReturns ==
    \A t \in Callers :
        tasks[t].fn = "stop" /\ tasks'[t].fn # "stop" =>
            state' = "closed" /\ tasks'[t].pc = "idle" /\ tasks'[t].out = "ok"

\* C9: a stop() that passed its guard sends its close messages in the order
\* contentEnd, promptEnd, sessionEnd, close, is never held up, and returns
\* with state Closed and without an exception whichever step failed.
C9_StopAlwaysCloses == []StopProgresses /\ [][StopReturns]_vars

\* An effective stop() has returned normally in state Closed although its
\* close sequence failed: the stream is still open.
C9_Witness ==
    \E t \in Callers :
        /\ tasks[t].pc = "idle" /\ tasks[t].last = "stop"
        /\ tasks[t].eff /\ tasks[t].out = "ok"
        /\ state = "closed" /\ faults > 0
        /\ stream # 0 /\ streams[stream].open

SessionVars ==
    <<state, client, stream, prompt_name, system_content_name,
      audio_content_name, history, current_user_text, current_assistant_text,
      response_task, session_timer_task, should_reconnect, metrics>>

\* Task t calls stop() in this step while the state is Idle, Closing or
\* Closed.
StopCalledWhenDown(t) ==
    /\ tasks[t].pc = "idle" /\ calls'[t] = calls[t] + 1
    /\ \/ tasks'[t].fn = "stop"
       \/ tasks'[t].pc = "idle" /\ tasks'[t].last = "stop"
    /\ state \in {"idle", "closing", "closed"}

\* In this step t's stop() returns and t calls stop() again at once.
StopCalledTwice(t) == tasks[t].fn = "stop" /\ calls'[t] = calls[t] + 1

\* C10: a stop() called in Idle, Closing or Closed returns at once, changes
\* no session state and hands nothing to the transport; a stop() that
\* directly follows a stop() is such a call, so the two send the close
\* sequence at most once.
C10_StopIdempotent ==
    [][\A t \in Callers :
        /\ StopCalledWhenDown(t) =>
              /\ UNCHANGED <<SessionVars, streams>>
              /\ tasks'[t].pc = "idle"
              /\ \A u \in DOMAIN tasks : u # t => tasks'[u] = tasks[u]
        /\ StopCalledTwice(t) =>
              /\ state' = "closed" /\ streams' = streams
              /\ tasks'[t].pc = "idle" /\ ~tasks'[t].eff]_vars

\* A second stop() has returned without effect on a session that a first
\* stop() had closed.
C10_Witness ==
    \E t \in Callers :
        /\ tasks[t].pc = "idle" /\ tasks[t].last = "stop" /\ ~tasks[t].eff
        /\ calls[t] >= 2 /\ stopped /\ state = "closed"
        /\ \E i \in DOMAIN streams : ~streams[i].open

\* Task t calls fn in this step.
CallsNow(t, fn) ==
    /\ tasks[t].pc = "idle" /\ calls'[t] = calls[t] + 1
    /\ \/ tasks'[t].fn = fn
       \/ tasks'[t].pc = "idle" /\ tasks'[t].last = fn

\* The step leaves the session, the transport and every other task alone,
\* and the call of t has returned normally.
NothingDone(t) ==
    /\ UNCHANGED <<SessionVars, streams, uuid, text_calls>>
    /\ DOMAIN tasks' = DOMAIN tasks
    /\ \A u \in DOMAIN tasks : u # t => tasks'[u] = tasks[u]
    /\ tasks'[t].pc = "idle" /\ tasks'[t].out = "ok"

\* C11: start() called outside Idle and Closed, and reconnect() called
\* outside Active and Reconnecting, return at once without an exception and
\* leave state, identifiers, history, metrics, tasks and transport unchanged.
C11_InvalidRequestNoOp ==
    [][\A t \in Callers :
        /\ CallsNow(t, "start") /\ state \notin {"idle", "closed"}
              => NothingDone(t)
        /\ CallsNow(t, "reconnect") /\ state \notin {"active", "reconnecting"}
              => NothingDone(t)]_vars

\* A start() on a session that is up has returned without effect.
C11_Witness ==
    \E t \in Callers :
        /\ tasks[t].pc = "idle" /\ tasks[t].last = "start" /\ ~tasks[t].eff
        /\ tasks[t].out = "ok" /\ state = "active" /\ calls[t] >= 2

\* C12: send_audio() called outside Active does nothing and raises nothing;
\* called in Active it hands exactly one audioInput to the stream (none when
\* the transport refuses it), and when the send has succeeded it returns
\* having added exactly 1 to audio_chunks_sent.
C12_SendAudio ==
    [][\A t \in Callers :
        /\ CallsNow(t, "send_audio") /\ state # "active" => NothingDone(t)
        /\ CallsNow(t, "send_audio") /\ state = "active" =>
              /\ tasks'[t].pc = "audio" /\ metrics' = metrics
              /\ DOMAIN streams' = DOMAIN streams
              /\ \A i \in DOMAIN streams :
                    streams'[i].audio = streams[i].audio +
                        (IF i = stream /\ tasks'[t].io = "ok" THEN 1 ELSE 0)
        /\ tasks[t].fn = "send_audio" /\ tasks'[t].fn # "send_audio" =>
              /\ streams' = streams
              /\ tasks'[t].pc = "idle"
              /\ metrics' = [metrics EXCEPT !.audio_chunks_sent =
                                @ + (IF tasks'[t].out = "ok" THEN 1 ELSE 0)]
              /\ tasks[t].io = "ok" => tasks'[t].out = "ok"]_vars

\* A send_audio() called in Active has returned: one audioInput is on the
\* stream and the counter is 1.
C12_Witness ==
    \E t \in Callers :
        /\ tasks[t].pc = "idle" /\ tasks[t].last = "send_audio"
        /\ tasks[t].eff /\ tasks[t].out = "ok"
        /\ metrics.audio_chunks_sent = 1
        /\ \E i \in DOMAIN streams : streams[i].audio = 1

\* The entries a flush makes of the two buffers: one per non-blank buffer,
\* the user's first.
Flushed(u, a) ==
    (IF \E i \in 1..Len(u) : u[i] # " "
     THEN <<[role |-> "user", text |-> Strip(u)]>> ELSE <<>>) \o
    (IF \E i \in 1..Len(a) : a[i] # " "
     THEN <<[role |-> "assistant", text |-> Strip(a)]>> ELSE <<>>)

\* Task t returns from a reconnect() that tore the old segment down.
ReconnectCompletes(t) ==
    tasks[t].fn = "reconnect" /\ tasks'[t].fn # "reconnect"

\* The identifiers and the counter after such a reconnect().
FreshSegment(t) ==
    /\ prompt_name' # tasks[t].was.ids[1]
    /\ system_content_name' # tasks[t].was.ids[2]
    /\ audio_content_name' # tasks[t].was.ids[3]
    /\ metrics'.reconnections = tasks[t].was.reconnections + 1

\* C13 as stated: after a reconnect() issued in Active the history is every
\* earlier turn followed by the entries flushed from the non-blank buffers,
\* the three identifiers are new and reconnections has grown by 1.
C13_HistoryKeptWhole ==
    [][\A t \in Callers : ReconnectCompletes(t) =>
          /\ history' = tasks[t].was.history \o
                            Flushed(tasks[t].was.user, tasks[t].was.assistant)
          /\ FreshSegment(t)]_vars

\* C13 amended: a reconnect() that tears a segment down is issued in Active,
\* and after it the history is the last 2 x MAX_HISTORY_TURNS entries of the
\* earlier turns followed by the flushed entries, the three identifiers are
\* new and reconnections has grown by 1.
C13_HistoryKeptUpToLimit ==
    [][\A t \in Callers :
        /\ tasks[t].pc = "idle" /\ tasks'[t].fn = "reconnect" => state = "active"
        /\ ReconnectCompletes(t) =>
              /\ history' = Last(tasks[t].was.history \o
                                    Flushed(tasks[t].was.user, tasks[t].was.assistant),
                                 2 * MAX_HISTORY_TURNS)
              /\ FreshSegment(t)]_vars

\* A reconnect() has returned on a full history whose oldest turn made room
\* for the flushed one.
C13_Witness ==
    \E t \in Callers :
        /\ tasks[t].pc = "idle" /\ tasks[t].last = "reconnect" /\ tasks[t].eff
        /\ state = "active" /\ metrics.reconnections = 1
        /\ Len(history) = 2 * MAX_HISTORY_TURNS
        /\ history[1].text # <<"o">>
        /\ history[Len(history)].text = <<"x">>

\* C14: in every reachable state, with or without synthetic turns injected
\* by the orchestration add-on, the history holds at most
\* 2 x MAX_HISTORY_TURNS entries.
C14_HistoryBounded == Len(history) <= 2 * MAX_HISTORY_TURNS

\* A text with nothing but whitespace in it (the empty text included).
Blank(txt) == \A i \in 1..Len(txt) : txt[i] = " "

\* A text that is not empty and neither starts nor ends with whitespace.
Trimmed(txt) == txt # <<>> /\ txt[1] # " " /\ txt[Len(txt)] # " "

\* C15: every entry the session appends to the history has a non-empty text
\* without leading or trailing whitespace, and a buffer that is empty or
\* whitespace-only produces no entry: with both buffers blank the history
\* stays as it is, and with one blank the only entry made is the other
\* role's.
C15_EntriesTrimmed ==
    [][/\ \A i \in 1..Len(history') : Trimmed(history'[i].text)
       /\ Blank(current_user_text) /\ Blank(current_assistant_text)
             => history' = history
       /\ history' # history /\ Blank(current_user_text) =>
             /\ history'[Len(history')].role = "assistant"
             /\ SubSeq(history', 1, Len(history') - 1)
                    = Last(history, 2 * MAX_HISTORY_TURNS - 1)
       /\ history' # history /\ Blank(current_assistant_text) =>
             /\ history'[Len(history')].role = "user"
             /\ SubSeq(history', 1, Len(history') - 1)
                    = Last(history, 2 * MAX_HISTORY_TURNS - 1)]_vars

\* At a turn end the reader has flushed an assistant text that ended in
\* whitespace, while the user's buffer held whitespace alone and still does.
C15_Witness ==
    /\ Blank(current_user_text) /\ current_user_text # <<>>
    /\ metrics.turns_completed = 1
    /\ history # <<>>
    /\ history[Len(history)] = [role |-> "assistant", text |-> <<"x">>]
    /\ \E i \in 1..Len(inbound) - 1 :
          /\ inbound[i].ev = "textOutput" /\ inbound[i].content = <<"x">>
          /\ inbound[i + 1].ev = "textOutput" /\ inbound[i + 1].content = <<" ">>

\* The position in sq of the last event of kind ev before position i (0 when
\* there is none).
LastBefore(sq, i, ev) ==
    LET js == {j \in 1..(i - 1) : sq[j].ev = ev}
    IN  IF js = {} THEN 0 ELSE CHOOSE j \in js : \A k \in js : k <= j

\* The role ("user" or "assistant") the text fragment at position i of sq is
\* taken for, "none" when it is not taken: the routing context is the most
\* recent contentStart.
TakenFor(sq, i) ==
    LET k == LastBefore(sq, i, "contentStart")
    IN  IF sq[i].ev # "textOutput" \/ ~sq[i].has_content \/ k = 0 THEN "none"
        ELSE IF sq[k].role = "USER" THEN "user"
        ELSE IF sq[k].role = "ASSISTANT" /\ sq[k].speculative THEN "assistant"
        ELSE "none"

\* The callbacks due for the fragments of sq[1..n], in arrival order.
RECURSIVE CallsDue(_, _)
CallsDue(sq, n) ==
    IF n = 0 THEN <<>>
    ELSE CallsDue(sq, n - 1) \o
         (IF TakenFor(sq, n) = "none" THEN <<>>
          ELSE <<[role |-> TakenFor(sq, n), text |-> sq[n].content]>>)

\* The fragments of sq[from..n] taken for role, concatenated in arrival order.
RECURSIVE TextOf(_, _, _, _)
TextOf(sq, role, from, n) ==
    IF n < from THEN <<>>
    ELSE TextOf(sq, role, from, n - 1) \o
         (IF TakenFor(sq, n) = role THEN sq[n].content ELSE <<>>)

\* The text taken for role since the last turn end in sq.
SinceFlush(sq, role) ==
    TextOf(sq, role, LastBefore(sq, Len(sq) + 1, "completionEnd") + 1, Len(sq))

\* The reader is handed a completionEnd in this step.
TurnEnds ==
    /\ Len(inbound') = Len(inbound) + 1
    /\ inbound'[Len(inbound')].ev = "completionEnd"

\* C16: the text callbacks made are, in arrival order, those of the
\* fragments taken so far, so each precedes the flush of its turn; at each
\* completionEnd turns_completed grows by exactly 1 and the history gains,
\* user before assistant, one entry per role whose buffer is not blank, its
\* text the trimmed concatenation in arrival order of exactly the fragments
\* taken for that role since the previous flush.
C16_CallbacksThenFlush ==
    [][/\ text_calls' = CallsDue(inbound', Len(inbound'))
       /\ TurnEnds =>
             /\ text_calls' = text_calls
             /\ metrics'.turns_completed = metrics.turns_completed + 1
             /\ history' = Last(history \o Flushed(SinceFlush(inbound, "user"),
                                                    SinceFlush(inbound, "assistant")),
                                2 * MAX_HISTORY_TURNS)]_vars

\* A turn with a user fragment and an assistant fragment has ended: the two
\* callbacks were made in that order and the history ends with the two
\* entries.
C16_Witness ==
    /\ inbound # <<>> /\ inbound[Len(inbound)].ev = "completionEnd"
    /\ metrics.turns_completed = 1
    /\ text_calls = <<[role |-> "user", text |-> <<"x">>],
                      [role |-> "assistant", text |-> <<"x">>]>>
    /\ Len(history) >= 2
    /\ history[Len(history) - 1] = [role |-> "user", text |-> <<"x">>]
    /\ history[Len(history)] = [role |-> "assistant", text |-> <<"x">>]

\* The reader is handed a textOutput that has its content in this step.
TextArrives ==
    /\ Len(inbound') = Len(inbound) + 1
    /\ inbound'[Len(inbound')].ev = "textOutput"
    /\ inbound'[Len(inbound')].has_content

\* C17: a textOutput fragment is appended to a partial-turn buffer and passed
\* to the text callback if and only if the most recent contentStart the
\* reader has seen had role USER (user buffer), or role ASSISTANT with
\* generationStage SPECULATIVE (assistant buffer); otherwise, and before any
\* contentStart, buffers, history and callback are untouched.
C17_TextRouting ==
    [][TextArrives =>
        LET txt  == inbound'[Len(inbound')].content
            ctx  == {i \in 1..Len(inbound) : inbound[i].ev = "contentStart"}
            cs   == inbound[CHOOSE i \in ctx : \A j \in ctx : j <= i]
            user == ctx # {} /\ cs.role = "USER"
            asst == ctx # {} /\ cs.role = "ASSISTANT" /\ cs.speculative
        IN  /\ history' = history
            /\ user =>
                  /\ current_user_text' = current_user_text \o txt
                  /\ current_assistant_text' = current_assistant_text
                  /\ text_calls' = Append(text_calls, [role |-> "user", text |-> txt])
            /\ asst =>
                  /\ current_assistant_text' = current_assistant_text \o txt
                  /\ current_user_text' = current_user_text
                  /\ text_calls' = Append(text_calls, [role |-> "assistant", text |-> txt])
            /\ ~user /\ ~asst =>
                  UNCHANGED <<current_user_text, current_assistant_text, text_calls>>]_vars

\* A speculative assistant fragment was taken, and the same fragment after a
\* contentStart ASSISTANT without that stage was not.
C17_Witness ==
    /\ Len(inbound) = 4
    /\ inbound[1].ev = "contentStart" /\ inbound[1].role = "ASSISTANT"
    /\ inbound[1].speculative
    /\ inbound[2].ev = "textOutput" /\ inbound[2].content = <<"x">>
    /\ inbound[3].ev = "contentStart" /\ inbound[3].role = "ASSISTANT"
    /\ ~inbound[3].speculative
    /\ inbound[4] = inbound[2]
    /\ current_assistant_text = <<"x">>
    /\ text_calls = <<[role |-> "assistant", text |-> <<"x">>]>>

\* The reader is handed a textOutput or audioOutput without content in this
\* step.
MalformedArrives ==
    /\ Len(inbound') = Len(inbound) + 1
    /\ Malformed(inbound'[Len(inbound')])

\* C18: a message that lacks an expected field is skipped: events_received
\* still grows by 1, no exception leaves the reader, and the reader goes on
\* to wait for the messages that follow.
C18_MalformedSkipped ==
    [][MalformedArrives =>
        /\ metrics'.events_received = metrics.events_received + 1
        /\ \A t \in DOMAIN tasks : tasks[t].pc = "receive" =>
              /\ tasks'[t].out # "exc"
              /\ tasks'[t].pc = "await_output"]_vars

\* The reconnect() run by watchdog task t ends with an exception in this step.
TimerReconnectFails(t) ==
    /\ tasks[t].kind = "timer" /\ tasks[t].fn = "reconnect"
    /\ tasks'[t].pc = "done" /\ tasks'[t].out = "exc"

\* No task is created and no stream is opened in this step.
NothingRetried ==
    /\ DOMAIN tasks' = DOMAIN tasks
    /\ UNCHANGED <<response_task, session_timer_task, opens, stream>>

C20_CallbackFailureContained ==
    [][\A t \in Callers : ReconnectCompletes(t) /\ on_reconnect = "raises" =>
          /\ state' = "active"
          /\ response_task' \notin {0, tasks[t].pr}
          /\ ~Done(tasks'[response_task'])
          /\ session_timer_task' \notin {0, tasks[t].pw}
          /\ ~Done(tasks'[session_timer_task'])
          /\ metrics'.reconnections = tasks[t].was.reconnections + 1
          /\ tasks'[t].out = "ok"]_vars

\* The payloads of the audioOutput messages of sq that can be decoded, in
\* arrival order.
RECURSIVE Payloads(_)
Payloads(sq) ==
    IF sq = <<>> THEN <<>>
    ELSE LET e == sq[Len(sq)]
         IN  Payloads(SubSeq(sq, 1, Len(sq) - 1)) \o
             (IF e.ev = "audioOutput" /\ e.has_content /\ B64Valid(e.content)
              THEN <<B64Decode(e.content)>> ELSE <<>>)

\* C21: the chunks played and the chunks queued are together exactly the
\* decoded payloads of the audioOutput messages, in arrival order;
\* audio_chunks_received is the number of chunks ever enqueued; and the
\* queue changes only by the reader appending one chunk at its end or the
\* playback loop taking its first: stop(), start() and reconnect() leave it
\* as it is.
C21_AudioQueue ==
    [][/\ played' \o audio_output_queue' = Payloads(inbound')
       /\ metrics'.audio_chunks_received = Len(played') + Len(audio_output_queue')
       /\ audio_output_queue' # audio_output_queue =>
             \/ /\ Len(inbound') = Len(inbound) + 1
                /\ played' = played
                /\ Len(audio_output_queue') = Len(audio_output_queue) + 1
                /\ SubSeq(audio_output_queue', 1, Len(audio_output_queue))
                      = audio_output_queue
             \/ /\ inbound' = inbound
                /\ audio_output_queue # <<>>
                /\ audio_output_queue' = Tail(audio_output_queue)
                /\ played' = Append(played, Head(audio_output_queue))
                /\ UNCHANGED <<state, tasks, streams>>]_vars

\* Two chunks have arrived and the first has been played while the
\* application stopped the session, started it again and reconnected it:
\* the second chunk is in the queue.
C21_Witness ==
    /\ played = << <<65>> >>
    /\ audio_output_queue = << <<66, 67>> >>
    /\ metrics.audio_chunks_received = 2
    /\ state = "active" /\ metrics.reconnections = 1
    /\ calls[App] = 3 /\ tasks[App].pc = "idle" /\ tasks[App].last = "reconnect"

\* C22: the history property returns an independent copy: whatever is done
\* through a list it returned (appending or removing entries, changing a
\* returned turn), the session's history stays as it is.
C22_SnapshotIndependent == [][history' = history]_vars

\* The prompt the texts and roles of a history call for: the labelled lines
\* of its entries from position k on, oldest first, each ended by a line
\* break but the last.
RECURSIVE LinesFrom(_, _, _)
LinesFrom(roles, texts, k) ==
    IF k > Len(roles) THEN <<>>
    ELSE <<IF roles[k] = "user" THEN "User" ELSE "Assistant", ": ">> \o texts[k] \o
         (IF k < Len(roles) THEN <<"\n">> ELSE <<>>) \o
         LinesFrom(roles, texts, k + 1)

PromptFor(base, roles, texts) ==
    IF Len(roles) = 0 THEN base
    ELSE base \o
         <<"\n\n", "[Session continuation] The conversation so far:\n">> \o
         LinesFrom(roles, texts,
                   IF Len(roles) > MAX_HISTORY_TURNS
                   THEN Len(roles) - MAX_HISTORY_TURNS + 1 ELSE 1) \o
         <<"\n\n",
           "Continue the conversation naturally from where it left off. ",
           "Do not repeat previous responses or acknowledge the reconnection.">>

\* C23: the continuation prompt is a function of the base prompt and the
\* roles and texts of the history: the base prompt itself on an empty
\* history, else the base prompt, one labelled line for each of the last
\* MAX_HISTORY_TURNS entries, oldest first, and the fixed instruction;
\* building it again on the same history gives the same text, and the
\* timestamps play no part.
C23_PromptDetermined ==
    [][/\ prompt_built'.built =>
             prompt_built'.text =
                PromptFor(system_prompt,
                          [i \in 1..Len(history) |-> history[i].role],
                          [i \in 1..Len(history) |-> history[i].text])
       /\ prompt_built.built => prompt_built' = prompt_built]_vars

\* A prompt was built on a history of more than MAX_HISTORY_TURNS turns: its
\* first line is that of the tenth turn from the end, not of the oldest.
C23_Witness ==
    /\ prompt_built.built
    /\ Len(history) = 2 * MAX_HISTORY_TURNS - 1
    /\ Len(system_prompt) = 1
    /\ prompt_built.text[4] = "Assistant" /\ prompt_built.text[6] = "j"
    /\ history[1].timestamp = 1001

\* ------------------------------------------------------------------ C24
FailureCauses == {"webhook", "timeout", "exception", "unconfigured"}

NewResult == dispatches'[Len(dispatches')]

\* C24: a dispatch that ends in a webhook failure, no reply within the
\* timeout, an exception of the side call or an incomplete configuration
\* records a DispatchResult with success False and an error text (not None),
\* and the step that ends it leaves the history and every other variable of
\* the session as they were; reconnect() has been called once per dispatch
\* that obtained a reply and by no other dispatch.
C24_FailedDispatch ==
    /\ [](calls[Dispatch] =
            Cardinality({i \in DOMAIN dispatches : dispatches[i].run.cause = "reply"})
            + (IF active_dispatch.pc = "inject" THEN 1 ELSE 0))
    /\ [][Len(dispatches') > Len(dispatches) /\ NewResult.run.cause \in FailureCauses
            => /\ NewResult.success = FALSE
               /\ NewResult.error # <<>>
               /\ NewResult.run.injected = 0
               /\ NewResult.run.reconnects = 0
               /\ history' = history
               /\ SessionRest' = SessionRest]_vars

\* Two dispatches have failed, the first for the incomplete configuration
\* and the second at the timeout, and the session is still Active with the
\* history it had.
C24_Witness ==
    /\ Len(dispatches) = 2
    /\ dispatches[1].run.cause = "unconfigured"
    /\ dispatches[1].error = <<"Discord config incomplete">>
    /\ dispatches[2].run.cause = "timeout"
    /\ dispatches[2].error = <<"No reply within ", "30.0", "s">>
    /\ state = "active"
    /\ calls[Dispatch] = 0

\* ------------------------------------------------------------------ C25
AskedTurn(p) == [role |-> "user", text |-> <<"[Airy was asked: ">> \o p \o <<"]">>]

RespondedTurn(r) ==
    [role |-> "assistant", text |-> <<"[Airy responded: ">> \o r \o <<"]">>]

\* The dispatch task calls reconnect() in this step.
ReplyInjected == calls'[Dispatch] = calls[Dispatch] + 1

\* The textInput of a handshake is sent on stream k in this step.
PromptSent(k) ==
    /\ k \in DOMAIN streams'
    /\ streams'[k].n >= 4
    /\ k \in DOMAIN streams => streams[k].n < 4

HasAiryLines(pr, p, r) ==
    \E j \in 1..(Len(pr) - 1) :
        /\ pr[j] = [label |-> "User", text |-> AskedTurn(p).text]
        /\ pr[j + 1] = [label |-> "Assistant", text |-> RespondedTurn(r).text]

\* C25: when a dispatch obtains a reply, the user turn "[Airy was asked:
\* <prompt>]" and then the assistant turn "[Airy responded: <reply>]" are
\* appended to the history before reconnect() is called (what reconnect()
\* flushes from the buffers comes after them), reconnect() is called once
\* (not again before the result is recorded), and when the session is
\* Active the textInput of the handshake that follows carries both lines.
C25_ReplyInjected ==
    /\ [][ReplyInjected =>
            \E r \in Replies :
                LET turns == <<AskedTurn(active_dispatch.prompt), RespondedTurn(r)>>
                IN  history' =
                        IF state = "active"
                        THEN Last(history \o turns
                                    \o Flushed(current_user_text, current_assistant_text),
                                  2 * MAX_HISTORY_TURNS)
                        ELSE history \o turns]_vars
    /\ [][active_dispatch.pc = "inject" => calls'[Dispatch] = calls[Dispatch]]_vars
    /\ [][\A k \in DOMAIN streams' :
            tasks[Dispatch].fn = "reconnect" /\ PromptSent(k)
                => HasAiryLines(streams'[k].prompt, active_dispatch.prompt,
                                active_dispatch.response)]_vars

\* A reply was injected into a full history while the user buffer held
\* text: the flushed text follows the two injected turns, the handshake of
\* the reconnect has sent its prompt with both lines, and the result is
\* recorded as a success.
C25_Witness ==
    /\ Len(history) = 2 * MAX_HISTORY_TURNS
    /\ history[Len(history) - 2] = AskedTurn(<<"q">>)
    /\ history[Len(history) - 1] = RespondedTurn(<<"r">>)
    /\ history[Len(history)] = [role |-> "user", text |-> <<"x">>]
    /\ \E k \in DOMAIN streams :
          k > 1 /\ streams[k].n >= 4 /\ HasAiryLines(streams[k].prompt, <<"q">>, <<"r">>)
    /\ \E d \in DOMAIN dispatches :
          dispatches[d].success /\ dispatches[d].run.reconnects = 1
    /\ state = "active"

\* ------------------------------------------------------------------ C26
\* The elements of the text delivered so far.
Delivered == tag_stream.at - 1

OpenAt == CHOOSE i \in 1..Len(tag_stream.text) : tag_stream.text[i] = "<airy>"

CloseAt == CHOOSE i \in 1..Len(tag_stream.text) : tag_stream.text[i] = "</airy>"

TagContent == SubSeq(tag_stream.text, OpenAt + 1, CloseAt - 1)

\* C26: whatever the chunks an assistant text with one tag is cut into,
\* nothing is dispatched before the chunk with the closing delimiter; from
\* that chunk on there is exactly one dispatch, of the content without its
\* leading and trailing blanks, or none when the content is empty or blank;
\* and _in_tag holds exactly when the opening delimiter has been delivered
\* and the closing one has not.
C26_TagDispatchedOnce ==
    /\ in_tag = (Delivered >= OpenAt /\ Delivered < CloseAt)
    /\ Delivered < CloseAt => dispatches = <<>>
    /\ Delivered >= CloseAt /\ Blank(TagContent) => dispatches = <<>>
    /\ Delivered >= CloseAt /\ ~Blank(TagContent) =>
          /\ Len(dispatches) = 1
          /\ Trimmed(dispatches[1].prompt)
          /\ \E lo, hi \in 1..Len(TagContent) :
                /\ dispatches[1].prompt = SubSeq(TagContent, lo, hi)
                /\ Blank(SubSeq(TagContent, 1, lo - 1))
                /\ Blank(SubSeq(TagContent, hi + 1, Len(TagContent)))

\* The content " a " preceded by a blank was delivered in four chunks or
\* more, its closing delimiter in a chunk of its own, and "a" dispatched.
C26_Witness ==
    /\ TagContent = <<" ", "a", " ">>
    /\ Cardinality(tag_stream.cuts) >= 3
    /\ {OpenAt, CloseAt - 1} \subseteq tag_stream.cuts
    /\ Delivered = CloseAt
    /\ Len(dispatches) = 1
    /\ dispatches[1].prompt = <<"a">>
    /\ ~in_tag

\* ------------------------------------------------------------------ C27
LastOp == audio_out.ops[Len(audio_out.ops)]

Resampled == audio_out.ops # <<>> /\ LastOp \in {"downsample_linear", "upsample_linear"}

\* The number of 16-bit samples of PCM bytes.
SampleCount(data) == Len(data) \div 2

\* C27: whatever the rates and the input (a whole number of 16-bit samples,
\* none included), the resampler returns exactly
\* floor(inputSampleCount * dstRate / srcRate) samples.
C27_ResampleLength ==
    Resampled /\ Len(audio_out.arg) % 2 = 0 =>
        /\ audio_out.raised = "none"
        /\ SampleCount(audio_out.data) =
              (SampleCount(audio_out.arg) * audio_in.dst_rate) \div audio_in.src_rate

\* ------------------------------------------------------------------ C28
\* Sample i (from 0) of PCM bytes.
SampleAt(data, i) ==
    LET u == data[2 * i + 1] + 256 * data[2 * i + 2]
    IN  IF u >= 32768 THEN u - 65536 ELSE u

\* floor(a / b) and the nearest integer to a / b (ties to the even one),
\* for b > 0.
Floor(a, b) == CHOOSE q \in -32769..32768 : q * b <= a /\ a < (q + 1) * b

Nearest(a, b) ==
    LET q == Floor(a, b)
        r == a - q * b
    IN  IF 2 * r < b THEN q
        ELSE IF 2 * r > b THEN q + 1
        ELSE IF q % 2 = 0 THEN q ELSE q + 1

\* C28: output sample i is the rounded interpolation of the source samples
\* k and k+1 at p = i * srcRate / dstRate (k = floor(p), f = p - k), or
\* sample k when k+1 is past the end; k is a valid index and the sample lies
\* in the 16-bit range.
C28_Interpolation ==
    Resampled /\ audio_in.src_rate # audio_in.dst_rate /\ audio_out.raised = "none" =>
        \A i \in 0..(SampleCount(audio_out.data) - 1) :
            LET n   == SampleCount(audio_out.arg)
                k   == (i * audio_in.src_rate) \div audio_in.dst_rate
                rem == (i * audio_in.src_rate) % audio_in.dst_rate
                out == SampleAt(audio_out.data, i)
            IN  /\ k < n
                /\ out \in -32768..32767
                /\ out = IF k + 1 < n
                         THEN Nearest(SampleAt(audio_out.arg, k) * (audio_in.dst_rate - rem)
                                        + SampleAt(audio_out.arg, k + 1) * rem,
                                      audio_in.dst_rate)
                         ELSE SampleAt(audio_out.arg, k)

\* ------------------------------------------------------------------ C29
\* C29: stereo_to_mono returns floor(len / 4) samples, the bytes after the
\* last complete frame having no part in them, and sample j is the floor of
\* (L + R) / 2 of frame j: the integer m with 2m <= L + R < 2m + 2.
C29_StereoToMono ==
    audio_out.ops # <<>> /\ LastOp = "stereo_to_mono" =>
        /\ audio_out.raised = "none"
        /\ Len(audio_out.data) = 2 * (Len(audio_out.arg) \div 4)
        /\ \A j \in 0..(Len(audio_out.arg) \div 4 - 1) :
              LET sum == SampleAt(audio_out.arg, 2 * j) + SampleAt(audio_out.arg, 2 * j + 1)
                  m   == SampleAt(audio_out.data, j)
              IN  2 * m <= sum /\ sum < 2 * m + 2

\* The frame (32767, -32768) followed by a lone byte was converted to the
\* one sample -1.
C29_Witness ==
    /\ audio_out.ops = <<"stereo_to_mono">>
    /\ Len(audio_out.arg) = 5
    /\ SampleAt(audio_out.arg, 0) = 32767
    /\ SampleAt(audio_out.arg, 1) = -32768
    /\ Len(audio_out.data) = 2
    /\ SampleAt(audio_out.data, 0) = -1

\* ------------------------------------------------------------------ C30
\* C30: mono_to_stereo and then stereo_to_mono of a sequence of 16-bit
\* samples gives the sequence back.
C30_RoundTrip ==
    audio_out.ops = <<"mono_to_stereo", "stereo_to_mono">> /\ Len(audio_in.data) % 2 = 0
        => audio_out.raised = "none" /\ audio_out.data = audio_in.data

\* The samples -32768 and 32767 went through both conversions and came back.
C30_Witness ==
    /\ audio_out.ops = <<"mono_to_stereo", "stereo_to_mono">>
    /\ audio_out.raised = "none"
    /\ Len(audio_in.data) = 4
    /\ SampleAt(audio_in.data, 0) = -32768
    /\ SampleAt(audio_in.data, 1) = 32767
    /\ audio_out.data = audio_in.data
    /\ Len(audio_out.arg) = 8

\* ------------------------------------------------------------------ C31
RECURSIVE Concat(_)
Concat(slices) == IF slices = <<>> THEN <<>> ELSE Head(slices) \o Concat(Tail(slices))

\* C31: the slices of chunk_audio(data, n), n >= 1, put together give data;
\* each but the last has n bytes, none is empty, and empty data gives none.
C31_Chunking ==
    audio_out.ops # <<>> /\ LastOp = "chunk_audio" =>
        /\ Concat(audio_out.chunks) = audio_out.arg
        /\ \A k \in 1..(Len(audio_out.chunks) - 1) : Len(audio_out.chunks[k]) = audio_out.size
        /\ \A k \in 1..Len(audio_out.chunks) : audio_out.chunks[k] # <<>>
        /\ audio_out.arg = <<>> => audio_out.chunks = <<>>

\* 19 bytes were split into slices of 4: four whole slices and one of 3.
C31_Witness ==
    /\ audio_out.ops = <<"chunk_audio">>
    /\ Len(audio_out.arg) = 19
    /\ audio_out.size = 4
    /\ Len(audio_out.chunks) = 5
    /\ Len(audio_out.chunks[5]) = 3

\* ------------------------------------------------------------------ C32
\* Task t enters a reconnect() that tears the segment down.
ReconnectStarts(t) == tasks[t].pc = "idle" /\ tasks'[t].fn = "reconnect"

\* The lines of the continuation prompt of a history.
PromptLines(hist) ==
    LET recent == Last(hist, MAX_HISTORY_TURNS)
    IN  [i \in 1..Len(recent) |->
            [label |-> IF recent[i].role = "user" THEN "User" ELSE "Assistant",
             text |-> recent[i].text]]

\* C32: reconnect() first flushes the buffers (the flushed entries are the
\* newest of the history, once, and a flushed buffer is left empty), the old
\* reader is cancelled or over from that step on, nothing touches the
\* history or the buffers until reconnect() returns, and the prompt the new
\* handshake sends is the continuation prompt of that post-flush history.
C32_FlushFirst ==
    /\ [][\A t \in Callers : ReconnectStarts(t) =>
            /\ \E h \in {history, history \o AiryTurns} :
                  history' = Last(h \o Flushed(current_user_text, current_assistant_text),
                                  2 * MAX_HISTORY_TURNS)
            /\ ~Blank(current_user_text) => current_user_text' = <<>>
            /\ ~Blank(current_assistant_text) => current_assistant_text' = <<>>
            /\ response_task # 0 =>
                  tasks'[response_task].must_cancel \/ tasks'[response_task].pc = "done"]_vars
    /\ [][\A t \in Callers : tasks[t].fn = "reconnect" /\ tasks'[t].fn = "reconnect" =>
            /\ history' = history
            /\ current_user_text' = current_user_text
            /\ current_assistant_text' = current_assistant_text]_vars
    /\ [][\A t \in Callers : \A k \in DOMAIN streams' :
            tasks[t].fn = "reconnect" /\ PromptSent(k)
                => streams'[k].prompt = PromptLines(history)]_vars

\* A reconnect() has returned: the text "x" that was in the user buffer
\* between blanks is the newest turn of the history, there once, the buffer
\* is empty, and the prompt of the new segment ends with its line.
C32_Witness ==
    \E t \in Callers :
        /\ tasks[t].pc = "idle" /\ tasks[t].last = "reconnect" /\ tasks[t].eff
        /\ state = "active"
        /\ current_user_text = <<>>
        /\ history # <<>>
        /\ history[Len(history)] = [role |-> "user", text |-> <<"x">>]
        /\ Cardinality({i \in DOMAIN history : history[i].text = <<"x">>}) = 1
        /\ streams[stream].prompt # <<>>
        /\ streams[stream].prompt[Len(streams[stream].prompt)] =
              [label |-> "User", text |-> <<"x">>]

\* ------------------------------------------------------------------ C33
\* Task t enters a reconnect() or a stop() that flushes the buffers.
FlushBegins(t) == tasks[t].pc = "idle" /\ tasks'[t].fn \in {"reconnect", "stop"}

\* The history a flush by task t finds: the add-on's task has appended its
\* two turns just before.
PreFlush(t) == IF t = Dispatch THEN history \o AiryTurns ELSE history

\* C33: after a flush the history is, element by element and in the same
\* order, the last min(n, 2 x MAX_HISTORY_TURNS) of the n entries made of the
\* history before the flush followed by the entries the flush appends; no
\* other step removes or moves an entry.
C33_TrimDropsOldest ==
    /\ [][\A t \in Callers : FlushBegins(t) =>
            LET all  == PreFlush(t) \o Flushed(current_user_text, current_assistant_text)
                n    == Len(all)
                kept == IF n < 2 * MAX_HISTORY_TURNS THEN n ELSE 2 * MAX_HISTORY_TURNS
            IN  /\ Len(history') = kept
                /\ \A i \in 1..kept : history'[i] = all[n - kept + i]]_vars
    /\ [][(\A t \in Callers : ~FlushBegins(t)) =>
            history' \in {history, history \o AiryTurns}]_vars

\* A stop() has flushed both buffers onto a history of 2 x MAX_HISTORY_TURNS
\* entries: the two oldest turns are gone, the third is now the first and
\* the user's and the assistant's new entries are the last two, in that order.
C33_Witness ==
    /\ tasks[App].fn = "stop"
    /\ Len(history) = 2 * MAX_HISTORY_TURNS
    /\ history[1] = OldHistory(3)[3]
    /\ history[2 * MAX_HISTORY_TURNS - 2] = [role |-> "assistant", text |-> <<"a">>]
    /\ history[2 * MAX_HISTORY_TURNS - 1] = [role |-> "user", text |-> <<"x">>]
    /\ history[2 * MAX_HISTORY_TURNS] = [role |-> "assistant", text |-> <<"x">>]

\* ------------------------------------------------------------------ C34
\* The sleep of watchdog task t ends and the watchdog calls reconnect().
WatchdogFires(t) ==
    /\ tasks[t].kind = "timer" /\ tasks[t].pc = "sleep"
    /\ tasks'[t].fn = "reconnect"

\* C34: a watchdog calls reconnect() only in state Active, and only the
\* watchdog the session holds, the one armed by the latest start() or
\* reconnect(), does so.
C34_LatestWatchdogOnly ==
    [][\A t \in DOMAIN tasks : WatchdogFires(t) =>
          state = "active" /\ t = session_timer_task]_vars

\* ------------------------------------------------------------------ C35
\* The stripped non-blank contents of the complete tags of a text, in order.
RECURSIVE TagPrompts(_)
TagPrompts(text) ==
    IF ~Has(text, "<airy>") THEN <<>>
    ELSE LET after == SubSeq(text, IndexOf(text, "<airy>") + 1, Len(text))
         IN  IF ~Has(after, "</airy>") THEN <<>>
             ELSE LET c    == IndexOf(after, "</airy>")
                      body == SubSeq(after, 1, c - 1)
                  IN  (IF Blank(body) THEN <<>> ELSE <<Strip(body)>>) \o
                      TagPrompts(SubSeq(after, c + 1, Len(after)))

\* What the tags of the texts hold: delimiters and content.
TagMatter == {"<airy>", "</airy>", "a", "b"}

\* C35: whatever the chunks, also with a second tag in the chunk that closes
\* the first, no delimiter and no tag content is handed to the pass-through
\* callback, and once the text is delivered there is one dispatch per tag
\* with non-blank content, in the order of the tags.
C35_EveryTagDispatched ==
    /\ \A i \in 1..Len(passthrough) : \A j \in 1..Len(passthrough[i][2]) :
          passthrough[i][2][j] \notin TagMatter
    /\ tag_stream.text # <<>> /\ Delivered = Len(tag_stream.text) =>
          [i \in 1..Len(dispatches) |-> dispatches[i].prompt] = TagPrompts(tag_stream.text)

\* ------------------------------------------------------------------ C36
\* The watchdog task t, inside the reconnect() it called, ends in this step.
WatchdogReconnectEnds(t) ==
    /\ tasks[t].kind = "timer" /\ tasks[t].fn = "reconnect"
    /\ tasks'[t].pc = "done"

\* C36: the reconnect() a watchdog runs is never ended by a cancellation
\* (no caller is there to cancel it but reconnect() itself), and when it
\* ends without an exception the state is Active and the session holds a
\* live reader and a live watchdog other than the one that ran it.
C36_WatchdogReconnectCompletes ==
    [][\A t \in DOMAIN tasks : WatchdogReconnectEnds(t) =>
          /\ tasks'[t].out # "cancelled"
          /\ tasks'[t].out = "ok" =>
                /\ state' = "active"
                /\ response_task' \in DOMAIN tasks' /\ ~Done(tasks'[response_task'])
                /\ session_timer_task' \in DOMAIN tasks' \ {t}
                /\ ~Done(tasks'[session_timer_task'])]_vars

\* ------------------------------------------------------------------ C37
\* C37: while the state is Active and no task is inside start() or
\* reconnect(), the reader the session holds has not ended.
C37_ReaderAliveWhenActive ==
    (/\ state = "active"
     /\ \A t \in DOMAIN tasks : tasks[t].fn \notin {"start", "reconnect"})
        => response_task \in DOMAIN tasks /\ ~Done(tasks[response_task])

\* ------------------------------------------------------------------ C38
\* The _post_and_poll tasks that are not done.
Pending == (IF InFlight THEN 1 ELSE 0) + Len(cancelled_dispatches)

\* C38: at most one dispatch task is pending; every dispatch task that ends
\* has added one result in the step it ends in, and a result is added only
\* by a task that ends or by a dispatch refused for its configuration.
C38_OneResultPerDispatch ==
    /\ [](Pending <= 1)
    /\ [][Pending' < Pending =>
            Pending' = Pending - 1 /\ Len(dispatches') = Len(dispatches) + 1]_vars
    /\ [][Len(dispatches') > Len(dispatches) =>
            /\ Len(dispatches') = Len(dispatches) + 1
            /\ Pending' = Pending - 1 \/ NewResult.run.cause = "unconfigured"]_vars

\* ------------------------------------------------------------------ C39
\* C39: every recorded DispatchResult has success True exactly when its
\* error is None.
C39_SuccessIffNoError ==
    \A i \in DOMAIN dispatches : dispatches[i].success = (dispatches[i].error = <<>>)

\* ------------------------------------------------------------------ C40
\* A user text is handed to the interceptor in this step.
UserTextArrives == tag_stream'.users # tag_stream.users

\* C40: every text handed to the pass-through callback, user text and
\* assistant text outside a tag, has also been handed, in the same order, to
\* the callback the session had before the add-on replaced it; and a user
\* text leaves _in_tag and _tag_buffer as they were.
C40_OriginalCallbackKept ==
    /\ [](original_calls = passthrough)
    /\ [][UserTextArrives => in_tag' = in_tag /\ tag_buffer' = tag_buffer]_vars

====
